---- MODULE Spec2Model ----
(***************************************************************************)
(* Model of the realtime-analytics pipeline: the event ingestion RPCs      *)
(* (internal/event), the Kafka producer and consumer wrappers (pkg/kafka)  *)
(* and the streaming aggregation service (internal/analytics).             *)
(***************************************************************************)
EXTENDS Integers, Sequences, FiniteSets, TLC

VARIABLES
    events,       \* the rows of table events (set of Event records)
    log,          \* the topic: partition -> sequence of messages
    nFresh,       \* how many identifiers uuid.New() has generated
    nCalls,       \* how many RPCs have been served
    resp,         \* the last RPC: its request, its response and what it did
    summaries,    \* the rows of table analytics_summary
    uniqueUsers,  \* per consumer process: Service.uniqueUsers, key -> users
    owner,        \* partition -> the process holding its claim, or NoProc
    pos,          \* partition -> how many messages the claim's loop is done with
    marked,       \* partition -> offset marked by session.MarkMessage
    pc,           \* partition -> where the worker of its claim is in the handler
    sweep,        \* per consumer process: the eviction sweep in progress, if any
    now,          \* the wall clock, in hours since the epoch
    last,         \* the last return of the message handler, and what it did
    nProcessed,   \* how many events were handed straight to ProcessEvent
    committed,    \* partition -> offset committed for the consumer group
    nRebalances,  \* how many group sessions have been set up
    delivered,    \* partition -> seq of the messages handed to the handler
    upserts,      \* key -> process -> number of successful UpsertSummary calls
    evicted,      \* per consumer process: keys a sweep deleted, not seen since
    firstAfter,   \* partition -> the message in hand is the first of its key
                  \* that the process received after the key's eviction
    qresp,        \* the last query or repository call and what it returned
    mainPc,       \* where main of the aggregation process is
    exitBy,       \* how the aggregation process ended, "none" while it runs
    group,        \* the sarama consumer group: "none", "open" or "closed"
    startPc,      \* where the goroutine of Consumer.Start is
    ready,        \* which channel Consumer.ready holds (channels are numbered)
    closedReady,  \* the channels that Setup has closed
    mainReady,    \* the channel WaitReady gave to main, NULL before the call
    claims,       \* the partitions whose ConsumeClaim loop is running
    running,      \* the partitions whose message handler is running
    signalled,    \* SIGINT or SIGTERM was sent to the process
    cancelled,    \* main cancelled the context of the consumer
    elapsed,      \* how much of the grace period has elapsed
    drainedAt,    \* the value of elapsed when the Start goroutine returned
    nJoined,      \* how many group sessions Consume has set up
    nFailed       \* how many calls of Consume returned an error

ingestVars == <<events, log, nFresh, nCalls, resp>>
consumerVars ==
    <<summaries, uniqueUsers, owner, pos, marked, pc, sweep, now, last, nProcessed,
      committed, nRebalances, delivered, upserts, evicted, firstAfter>>
ghostVars == <<evicted, firstAfter>>
processVars ==
    <<mainPc, exitBy, group, startPc, ready, closedReady, mainReady, claims, running,
      signalled, cancelled, elapsed, drainedAt, nJoined, nFailed>>
otherVars == <<qresp, processVars>>
vars == <<ingestVars, consumerVars, otherVars>>

(***************************************************************************)
(* Bounds of the model.                                                    *)
(***************************************************************************)
MaxCalls == 2
MaxBatch == 2
NumPartitions == 2
NumProcs == 2
MaxPipelineCalls == 2
MaxRebalances == 2
MaxTicks == 1
MaxProcessed == 3
StartHour == 35
MaxRows == 3
MaxTotal == 2
MaxQueries == 1
MaxScenarioCalls == 4
MaxStored == 3
MaxJoins == 2
GraceTicks == 2

Partitions == 0 .. (NumPartitions - 1)

(***************************************************************************)
(* Identifiers.  A UUID value is a number; its textual forms are strings.  *)
(* uuid.Parse accepts upper-case hexadecimal, UUID.String() prints the     *)
(* canonical lower-case form.  0 is uuid.Nil.                              *)
(***************************************************************************)
NilUUID == 0
NULL == -1

UuidTable ==
    [ e1 |-> 1, E1 |-> 1, e2 |-> 2, e3 |-> 3, e4 |-> 4, e5 |-> 5, e6 |-> 6,
      e7 |-> 7, e8 |-> 8, e9 |-> 9, e10 |-> 10, e11 |-> 11, e12 |-> 12,
      u1 |-> 21, u2 |-> 22, s1 |-> 31, p1 |-> 41, p2 |-> 42, nil |-> 0 ]

Canonical ==
    { "e1", "e2", "e3", "e4", "e5", "e6", "e7", "e8", "e9", "e10", "e11", "e12",
      "u1", "u2", "s1", "p1", "p2", "nil" }

ParseUUID(s) ==
    IF s \in DOMAIN UuidTable
    THEN [ok |-> TRUE, v |-> UuidTable[s]]
    ELSE [ok |-> FALSE, v |-> NilUUID]

UuidString(u) == CHOOSE s \in Canonical : UuidTable[s] = u

\* uuid.New(): the identifier generated after n others (e3, e4, ...).
NewUUID(n) == UuidTable["e3"] + n

(***************************************************************************)
(* Events.                                                                 *)
(***************************************************************************)
EventTypePageView == "page_view"
EventTypeProductView == "product_view"
EventTypeAddToCart == "add_to_cart"
EventTypeRemoveFromCart == "remove_from_cart"
EventTypePurchase == "purchase"
EventTypeSearch == "search"

KnownEventTypes ==
    { EventTypePageView, EventTypeProductView, EventTypeAddToCart,
      EventTypeRemoveFromCart, EventTypePurchase, EventTypeSearch }

NoEvent ==
    [ id |-> NilUUID, event_type |-> "", user_id |-> NilUUID,
      session_id |-> NilUUID, product_id |-> NULL, created_at |-> 0,
      processed_at |-> NULL ]

\* Event.Validate
Validate(e) ==
    IF e.event_type = "" THEN "ErrInvalidEventType"
    ELSE IF e.user_id = NilUUID THEN "ErrInvalidUserID"
    ELSE IF e.session_id = NilUUID THEN "ErrInvalidSessionID"
    ELSE "nil"

\* Handler.eventTypeToString
eventTypeToString(t) ==
    CASE t = "EVENT_TYPE_PAGE_VIEW" -> EventTypePageView
      [] t = "EVENT_TYPE_PRODUCT_VIEW" -> EventTypeProductView
      [] t = "EVENT_TYPE_ADD_TO_CART" -> EventTypeAddToCart
      [] t = "EVENT_TYPE_REMOVE_FROM_CART" -> EventTypeRemoveFromCart
      [] t = "EVENT_TYPE_PURCHASE" -> EventTypePurchase
      [] t = "EVENT_TYPE_SEARCH" -> EventTypeSearch
      [] OTHER -> "unknown"

\* Handler.protoToEvent; n is the number of identifiers generated before the call.
protoToEvent(p, n) ==
    LET eid == ParseUUID(p.event_id)
        eventID == IF eid.ok THEN eid.v ELSE NewUUID(n)
        gen == IF eid.ok THEN 0 ELSE 1
        uid == ParseUUID(p.user_id)
        sid == ParseUUID(p.session_id)
        pid == ParseUUID(p.product_id)
    IN  IF ~uid.ok THEN [err |-> "ErrInvalidUserID", event |-> NoEvent, gen |-> gen]
        ELSE IF ~sid.ok THEN [err |-> "ErrInvalidSessionID", event |-> NoEvent, gen |-> gen]
        ELSE IF p.product_id # "" /\ ~pid.ok
             THEN [err |-> "can't parse product id", event |-> NoEvent, gen |-> gen]
        ELSE [ err |-> "nil",
               event |-> [ id |-> eventID,
                           event_type |-> eventTypeToString(p.event_type),
                           user_id |-> uid.v,
                           session_id |-> sid.v,
                           product_id |-> IF p.product_id # "" THEN pid.v ELSE NULL,
                           created_at |-> p.timestamp,
                           processed_at |-> NULL ],
               gen |-> gen ]

(***************************************************************************)
(* The Event Store (internal/event/repository.go).  id is the primary key  *)
(* of table events; the store is kept as a set of rows so that uniqueness  *)
(* is a property of the operations, not of the representation.             *)
(***************************************************************************)
HasID(store, id) == \E r \in store : r.id = id

\* Create without the primary key: a conflicting row is stored beside the old one.
Create_NoPrimaryKey(store, e, db) ==
    IF Validate(e) # "nil" THEN [err |-> Validate(e), store |-> store]
    ELSE IF db = "fail" THEN [err |-> "failed to create event", store |-> store]
    ELSE [err |-> "nil", store |-> store \cup {e}]

\* Create as an upsert: a conflicting row replaces the old one.
Create_Overwrite(store, e, db) ==
    IF Validate(e) # "nil" THEN [err |-> Validate(e), store |-> store]
    ELSE IF db = "fail" THEN [err |-> "failed to create event", store |-> store]
    ELSE IF HasID(store, e.id)
    THEN [err |-> "ErrDuplicateEvent",
          store |-> {r \in store : r.id # e.id} \cup {e}]
    ELSE [err |-> "nil", store |-> store \cup {e}]

\* repository.Create; db is what the database does with the INSERT.
Create(store, e, db) ==
    IF Validate(e) # "nil" THEN [err |-> Validate(e), store |-> store]
    ELSE IF db = "fail" THEN [err |-> "failed to create event", store |-> store]
    ELSE IF HasID(store, e.id) THEN [err |-> "ErrDuplicateEvent", store |-> store]
    ELSE [err |-> "nil", store |-> store \cup {e}]

\* The loop of repository.CreateBatch inside the transaction: the rows of evs
\* from index i on, each inserted with ON CONFLICT (id) DO NOTHING.
\* rows[i] = "fail" is an INSERT that returns an error: it is logged and the
\* loop goes on to the next row.
RECURSIVE InsertRows(_, _, _, _)
InsertRows(store, evs, i, rows) ==
    IF i > Len(evs) THEN store
    ELSE IF Validate(evs[i]) # "nil" THEN InsertRows(store, evs, i + 1, rows)
    ELSE IF rows[i] = "fail" THEN InsertRows(store, evs, i + 1, rows)
    ELSE IF HasID(store, evs[i].id) THEN InsertRows(store, evs, i + 1, rows)
    ELSE InsertRows(store \cup {evs[i]}, evs, i + 1, rows)

\* CreateBatch that keeps the rows inserted before a failed commit.
CreateBatch_PartialCommit(store, evs, db, rows) ==
    IF Len(evs) = 0 THEN [err |-> "nil", store |-> store]
    ELSE IF db = "fail"
    THEN [err |-> "transaction failed", store |-> InsertRows(store, evs, 1, rows)]
    ELSE [err |-> "nil", store |-> InsertRows(store, evs, 1, rows)]

\* repository.CreateBatch; db = "fail" is a transaction that fails to begin,
\* to prepare or to commit, and is rolled back.
CreateBatch(store, evs, db, rows) ==
    IF Len(evs) = 0 THEN [err |-> "nil", store |-> store]
    ELSE IF db = "fail" THEN [err |-> "transaction failed", store |-> store]
    ELSE [err |-> "nil", store |-> InsertRows(store, evs, 1, rows)]

\* repository.GetByID
GetByID(store, id) ==
    IF HasID(store, id)
    THEN [err |-> "nil", event |-> CHOOSE r \in store : r.id = id]
    ELSE [err |-> "ErrEventNotFound", event |-> NoEvent]

\* MarkAsProcessed whose UPDATE has no condition on processed_at.
MarkAsProcessed_Unconditional(store, id, at, db) ==
    LET hit == {r \in store : r.id = id}
    IN  IF db = "fail"
        THEN [err |-> "failed to mark event as processed", store |-> store]
        ELSE IF hit = {} THEN [err |-> "ErrEventAlreadyProcessed", store |-> store]
        ELSE [err |-> "nil",
              store |-> (store \ hit) \cup {[r EXCEPT !.processed_at = at] : r \in hit}]

\* repository.MarkAsProcessed; at is NOW(), hit the rows the UPDATE matches.
MarkAsProcessed(store, id, at, db) ==
    LET hit == {r \in store : r.id = id /\ r.processed_at = NULL}
    IN  IF db = "fail"
        THEN [err |-> "failed to mark event as processed", store |-> store]
        ELSE IF hit = {} THEN [err |-> "ErrEventAlreadyProcessed", store |-> store]
        ELSE [err |-> "nil",
              store |-> (store \ hit) \cup {[r EXCEPT !.processed_at = at] : r \in hit}]

(***************************************************************************)
(* The Log Publisher (pkg/kafka producer).                                 *)
(***************************************************************************)
\* json.Marshal of the value handed to SendMessage: an *Event or a string.
EventValue(e) == [kind |-> "event", event |-> e, str |-> ""]
StringValue(s) == [kind |-> "string", event |-> NoEvent, str |-> s]

\* The number of messages in the Event Log.
LogSize(l) ==
    LET RECURSIVE Sum(_)
        Sum(p) == IF p >= NumPartitions THEN 0 ELSE Len(l[p]) + Sum(p + 1)
    IN  Sum(0)

\* A round-robin partitioner: the partition follows the number of messages sent.
HashPartition_RoundRobin(key) == LogSize(log) % NumPartitions

\* sarama.NewHashPartitioner: the partition is a function of the key alone.
HashPartition(key) == UuidTable[key] % NumPartitions

\* Producer.SendMessage; pub is what the broker does with the message.
SendMessage(l, key, value, pub) ==
    IF pub = "fail" THEN [err |-> "failed to send message", log |-> l]
    ELSE [ err |-> "nil",
           log |-> [l EXCEPT ![HashPartition(key)] =
                       Append(@, [key |-> key, value |-> value,
                                  seq |-> LogSize(l) + 1])] ]

(***************************************************************************)
(* The Ingestion Service (event.Service) and its RPC handler.              *)
(***************************************************************************)
\* The key Service.TrackEvent publishes an event under.
MessageKey_EventID(e) == UuidString(e.id)

MessageKey(e) == UuidString(e.user_id)

\* What Service.TrackEvent returns once SendMessage has returned sendErr:
\* the error is logged and dropped.
SendErrorResult_Propagated(sendErr) == sendErr

SendErrorResult(sendErr) == "nil"

\* Service.TrackEvent that publishes before it persists: the message is on the
\* log whatever the INSERT does.
ServiceTrackEvent_PublishFirst(store, l, e, db, pub) ==
    IF Validate(e) # "nil"
    THEN [err |-> Validate(e), store |-> store, log |-> l,
          persist |-> "none", sent |-> << >>]
    ELSE LET key == MessageKey(e)
             s == SendMessage(l, key, EventValue(e), pub)
             c == Create(store, e, db)
             msgs == << [key |-> key, value |-> EventValue(e), ok |-> s.err = "nil"] >>
         IN  IF c.err = "ErrDuplicateEvent"
             THEN [err |-> "nil", store |-> c.store, log |-> s.log,
                   persist |-> "duplicate", sent |-> msgs]
             ELSE IF c.err # "nil"
             THEN [err |-> "failed to create event", store |-> c.store,
                   log |-> s.log, persist |-> "error", sent |-> msgs]
             ELSE [err |-> SendErrorResult(s.err), store |-> c.store,
                   log |-> s.log, persist |-> "inserted", sent |-> msgs]

\* Service.TrackEvent
ServiceTrackEvent(store, l, e, db, pub) ==
    IF Validate(e) # "nil"
    THEN [err |-> Validate(e), store |-> store, log |-> l,
          persist |-> "none", sent |-> << >>]
    ELSE LET c == Create(store, e, db)
         IN  IF c.err = "ErrDuplicateEvent"
             THEN [err |-> "nil", store |-> c.store, log |-> l,
                   persist |-> "duplicate", sent |-> << >>]
             ELSE IF c.err # "nil"
             THEN [err |-> "failed to create event", store |-> c.store, log |-> l,
                   persist |-> "error", sent |-> << >>]
             ELSE LET key == MessageKey(e)
                      s == SendMessage(l, key, EventValue(e), pub)
                  IN  [err |-> SendErrorResult(s.err), store |-> c.store,
                       log |-> s.log,
                       persist |-> "inserted",
                       sent |-> << [key |-> key, value |-> EventValue(e),
                                    ok |-> s.err = "nil"] >>]

\* The gRPC code Handler.TrackEvent gives a Service.TrackEvent error.
TrackEventCode(err) ==
    IF err = "nil" THEN "OK"
    ELSE IF err \in {"ErrEventNotFound", "ErrInvalidSessionID", "ErrInvalidUserID"}
    THEN "InvalidArgument"
    ELSE "Internal"

\* The messages map of Service.TrackEventBatch: one entry per user key, its
\* value the event type of the last event of that user.
BatchKeys(evs) == { UuidString(evs[i].user_id) : i \in 1 .. Len(evs) }

\* The value of the first event of the user instead of the last.
BatchValue_First(evs, key) ==
    LET n == CHOOSE i \in 1 .. Len(evs) :
                    /\ UuidString(evs[i].user_id) = key
                    /\ \A j \in 1 .. (i - 1) : UuidString(evs[j].user_id) # key
    IN  StringValue(evs[n].event_type)

BatchValue(evs, key) ==
    LET n == CHOOSE i \in 1 .. Len(evs) :
                    /\ UuidString(evs[i].user_id) = key
                    /\ \A j \in (i + 1) .. Len(evs) : UuidString(evs[j].user_id) # key
    IN  StringValue(evs[n].event_type)

\* The publishing loop of Service.TrackEventBatch over the keys in the order
\* the map iteration yields them; pubs[key] is what the broker does.
RECURSIVE SendAll(_, _, _, _, _)
SendAll(l, evs, order, i, pubs) ==
    IF i > Len(order) THEN [log |-> l, failedIDs |-> << >>, sent |-> << >>]
    ELSE LET key == order[i]
             value == BatchValue(evs, key)
             s == SendMessage(l, key, value, pubs[key])
             rest == SendAll(s.log, evs, order, i + 1, pubs)
             failed == IF s.err # "nil" /\ value.kind = "event"
                       THEN << UuidString(value.event.id) >> ELSE << >>
         IN  [ log |-> rest.log,
               failedIDs |-> failed \o rest.failedIDs,
               sent |-> << [key |-> key, value |-> value, ok |-> s.err = "nil"] >>
                        \o rest.sent ]

\* Service.TrackEventBatch
ServiceTrackEventBatch(store, l, evs, db, rows, order, pubs) ==
    IF Len(evs) = 0
    THEN [err |-> "no events provided", store |-> store, log |-> l,
          count |-> 0, failedIDs |-> << >>, persist |-> "none", sent |-> << >>]
    ELSE LET c == CreateBatch(store, evs, db, rows)
         IN  IF c.err # "nil"
             THEN [err |-> "failed to save batch", store |-> c.store, log |-> l,
                   count |-> 0, failedIDs |-> << >>, persist |-> "error",
                   sent |-> << >>]
             ELSE LET s == SendAll(l, evs, order, 1, pubs)
                  IN  [err |-> "nil", store |-> c.store, log |-> s.log,
                       count |-> Len(evs) - Len(s.failedIDs),
                       failedIDs |-> s.failedIDs, persist |-> "committed",
                       sent |-> s.sent]

\* The conversion loop of Handler.TrackEventBatch: the events of reqs from
\* index i on that protoToEvent accepts, n identifiers generated so far.
RECURSIVE ConvertAll(_, _, _)
ConvertAll(reqs, i, n) ==
    IF i > Len(reqs) THEN [events |-> << >>, gen |-> 0]
    ELSE LET c == protoToEvent(reqs[i], n)
             rest == ConvertAll(reqs, i + 1, n + c.gen)
         IN  [ events |-> (IF c.err = "nil" THEN << c.event >> ELSE << >>)
                          \o rest.events,
               gen |-> c.gen + rest.gen ]

(***************************************************************************)
(* The requests clients send.                                              *)
(***************************************************************************)
ProtoEvents ==
    [ event_id : {"e1", "E1", ""},
      event_type : {"EVENT_TYPE_UNSPECIFIED", "EVENT_TYPE_PAGE_VIEW"},
      user_id : {"u1", "nil", "bad"},
      session_id : {"s1", "nil", "bad"},
      product_id : {"", "p1", "bad"},
      timestamp : {0} ]

BatchProtoEvents ==
    [ event_id : {"e1", ""},
      event_type : {"EVENT_TYPE_PAGE_VIEW"},
      user_id : {"u1", "u2"},
      session_id : {"s1"},
      product_id : {""},
      timestamp : {0} ]
    \cup
    [ event_id : {""},
      event_type : {"EVENT_TYPE_PAGE_VIEW"},
      user_id : {"nil", "bad"},
      session_id : {"s1"},
      product_id : {""},
      timestamp : {0} ]

Batches == UNION { [1 .. n -> BatchProtoEvents] : n \in 0 .. MaxBatch }

Outcomes == {"ok", "fail"}

\* The sequences that list every element of set S once.
Orders(S) ==
    { o \in [1 .. Cardinality(S) -> S] : \A k \in S : \E i \in DOMAIN o : o[i] = k }

NoResp ==
    [ op |-> "none", code |-> "OK", req |-> << >>, event_id |-> "",
      processed_count |-> 0, failed_ids |-> << >>,
      converted |-> << >>, persist |-> "none", sent |-> << >>,
      rows |-> << >> ]

(***************************************************************************)
(* The RPC handlers, one action each.                                      *)
(***************************************************************************)
\* Handler.TrackEvent
HandlerTrackEvent(req, db, pub) ==
    \E c \in {protoToEvent(req, nFresh)} :
    \E r \in {ServiceTrackEvent(events, log, c.event, db, pub)} :
        /\ nCalls' = nCalls + 1
        /\ nFresh' = nFresh + c.gen
        /\ UNCHANGED <<consumerVars, otherVars>>
        /\ IF c.err # "nil"
           THEN /\ resp' = [NoResp EXCEPT !.op = "TrackEvent", !.req = << req >>,
                                          !.code = "InvalidArgument"]
                /\ UNCHANGED <<events, log>>
           ELSE /\ events' = r.store
                /\ log' = r.log
                /\ resp' = [NoResp EXCEPT
                               !.op = "TrackEvent", !.req = << req >>,
                               !.code = TrackEventCode(r.err),
                               !.event_id = IF r.err = "nil"
                                            THEN UuidString(c.event.id) ELSE "",
                               !.converted = << c.event >>,
                               !.persist = r.persist,
                               !.sent = r.sent]

RejectEmptyBatch_Never(reqs) == FALSE

\* The guard of Handler.TrackEventBatch against an empty request.
RejectEmptyBatch(reqs) == Len(reqs) = 0

\* Handler.TrackEventBatch; c is what its conversion loop made of reqs, rows
\* what the database does with each INSERT of the batch.
HandlerTrackEventBatch(reqs, c, db, rows, order, pubs) ==
    /\ nCalls' = nCalls + 1
    /\ UNCHANGED <<consumerVars, otherVars>>
    /\ IF RejectEmptyBatch(reqs)
       THEN /\ resp' = [NoResp EXCEPT !.op = "TrackEventBatch", !.req = reqs,
                                      !.code = "InvalidArgument"]
            /\ UNCHANGED <<events, log, nFresh>>
       ELSE \E r \in {ServiceTrackEventBatch(events, log, c.events, db, rows,
                                             order, pubs)} :
            /\ nFresh' = nFresh + c.gen
            /\ events' = r.store
            /\ log' = r.log
            /\ resp' = [NoResp EXCEPT
                           !.op = "TrackEventBatch", !.req = reqs,
                           !.code = IF r.err = "nil" THEN "OK" ELSE "Internal",
                           !.processed_count = r.count,
                           !.failed_ids = r.failedIDs,
                           !.converted = c.events,
                           !.persist = r.persist,
                           !.sent = r.sent,
                           !.rows = rows]

TrackEventStep ==
    /\ nCalls < MaxCalls
    /\ \E req \in ProtoEvents, db \in Outcomes, pub \in Outcomes :
        HandlerTrackEvent(req, db, pub)

TrackEventBatchStep ==
    /\ nCalls < MaxCalls
    /\ \E reqs \in Batches, db \in Outcomes :
       \E c \in {ConvertAll(reqs, 1, nFresh)} :
       \E rows \in [DOMAIN c.events -> Outcomes],
          order \in Orders(BatchKeys(c.events)),
          pubs \in [BatchKeys(c.events) -> Outcomes] :
           HandlerTrackEventBatch(reqs, c, db, rows, order, pubs)

(***************************************************************************)
(* Time.  A time.Time is an instant, t hours after the epoch, presented in *)
(* a zone off hours east of UTC.                                           *)
(***************************************************************************)
HoursPerDay == 24
UTC == 0

Time(t, off) == [t |-> t, off |-> off]

\* Time.Truncate(24 * time.Hour): rounds the instant down to a multiple of
\* 24 hours since the zero time, whatever the zone; the zone is kept.
Truncate24h(tm) == [tm EXCEPT !.t = @ - (@ % HoursPerDay)]

\* Time.Hour(): the hour of the day in the zone of the value.
Hour(tm) == (tm.t + tm.off) % HoursPerDay

\* Time.Format("2006-01-02"): the calendar day in the zone of the value, as
\* the number of the day.  Two such strings compare as their days do.
FormatDate(tm) == (tm.t + tm.off) \div HoursPerDay

\* A time.Time bound to a DATE column: the calendar day it presents.
SqlDate(tm) == FormatDate(tm)

(***************************************************************************)
(* The Summary Store (internal/analytics/repository.go).                   *)
(***************************************************************************)
SummaryKey(r) == <<r.date, r.hour, r.event_type>>

HasKey(table, k) == \E r \in table : SummaryKey(r) = k

NoMetadata == "null"

NoSummary ==
    [ date |-> 0, hour |-> 0, event_type |-> "", total_events |-> 0,
      unique_users |-> 0, metadata |-> NoMetadata, updated_at |-> 0 ]

\* UpsertSummary whose conflict branch stores the incoming total_events.
UpsertSummary_Overwrite(table, sm, db) ==
    IF db = "fail" THEN [err |-> "failed to upsert summary", table |-> table]
    ELSE [ err |-> "nil",
           table |-> {r \in table : SummaryKey(r) # SummaryKey(sm)} \cup {sm} ]

\* UpsertSummary whose conflict branch keeps the larger unique_users.
UpsertSummary_MaxUsers(table, sm, db) ==
    IF db = "fail" THEN [err |-> "failed to upsert summary", table |-> table]
    ELSE IF HasKey(table, SummaryKey(sm))
    THEN [ err |-> "nil",
           table |-> {r \in table : SummaryKey(r) # SummaryKey(sm)} \cup
                     { [r EXCEPT !.total_events = @ + sm.total_events,
                                 !.unique_users =
                                     IF @ > sm.unique_users THEN @
                                     ELSE sm.unique_users,
                                 !.metadata = sm.metadata,
                                 !.updated_at = sm.updated_at] :
                       r \in {x \in table : SummaryKey(x) = SummaryKey(sm)} } ]
    ELSE [err |-> "nil", table |-> table \cup {sm}]

\* UpsertSummary that reports a failure after the row was written.
UpsertSummary_FailsAfterWrite(table, sm, db) ==
    [ err |-> IF db = "fail" THEN "failed to upsert summary" ELSE "nil",
      table |-> IF HasKey(table, SummaryKey(sm))
                THEN {r \in table : SummaryKey(r) # SummaryKey(sm)} \cup
                     { [r EXCEPT !.total_events = @ + sm.total_events,
                                 !.unique_users = sm.unique_users,
                                 !.metadata = sm.metadata,
                                 !.updated_at = sm.updated_at] :
                       r \in {x \in table : SummaryKey(x) = SummaryKey(sm)} }
                ELSE table \cup {sm} ]

\* repository.UpsertSummary: one INSERT ... ON CONFLICT (date, hour,
\* event_type) DO UPDATE statement; db is what the database does with it.
UpsertSummary(table, sm, db) ==
    IF db = "fail" THEN [err |-> "failed to upsert summary", table |-> table]
    ELSE IF HasKey(table, SummaryKey(sm))
    THEN [ err |-> "nil",
           table |-> {r \in table : SummaryKey(r) # SummaryKey(sm)} \cup
                     { [r EXCEPT !.total_events = @ + sm.total_events,
                                 !.unique_users = sm.unique_users,
                                 !.metadata = sm.metadata,
                                 !.updated_at = sm.updated_at] :
                       r \in {x \in table : SummaryKey(x) = SummaryKey(sm)} } ]
    ELSE [err |-> "nil", table |-> table \cup {sm}]

(***************************************************************************)
(* The Aggregation Consumer (internal/analytics/service.go).               *)
(***************************************************************************)
NoEventData ==
    [id |-> "", event_type |-> "", user_id |-> "", created_at |-> Time(0, UTC)]

\* json.Unmarshal of a message value into an EventData.  The events this
\* repository publishes carry a created_at in UTC.
Unmarshal(value) ==
    IF value.kind = "event"
    THEN [ err |-> "nil",
           data |-> [ id |-> UuidString(value.event.id),
                      event_type |-> value.event.event_type,
                      user_id |-> UuidString(value.event.user_id),
                      created_at |-> Time(value.event.created_at, UTC) ] ]
    ELSE [err |-> "cannot unmarshal string into EventData", data |-> NoEventData]

EmptyMap == [k \in {} |-> {}]

\* The key of Service.uniqueUsers: "<date>-<hour>-<event type>".
CacheKey(data) ==
    << FormatDate(Truncate24h(data.created_at)), Hour(data.created_at),
       data.event_type >>

\* An insertion that forgets the users the key already had.
AddUser_Replace(cache, key, user) ==
    [k \in DOMAIN cache \cup {key} |-> IF k = key THEN {user} ELSE cache[k]]

\* s.uniqueUsers[key][user] = true, the inner map made when it is missing.
AddUser(cache, key, user) ==
    [k \in DOMAIN cache \cup {key} |->
        IF k = key
        THEN (IF key \in DOMAIN cache THEN cache[key] ELSE {}) \cup {user}
        ELSE cache[k]]

\* len(s.uniqueUsers[key]); the length of a missing inner map is 0.
CountUsers(cache, key) ==
    IF key \in DOMAIN cache THEN Cardinality(cache[key]) ELSE 0

\* NewSummary, IncrementEvents(1), SetUniqueUsers(len(...)); clk is time.Now().
BuildSummary(cache, data, clk) ==
    [ date |-> SqlDate(Truncate24h(Truncate24h(data.created_at))),
      hour |-> Hour(data.created_at),
      event_type |-> data.event_type,
      total_events |-> 0 + 1,
      unique_users |-> CountUsers(cache, CacheKey(data)),
      metadata |-> NoMetadata,
      updated_at |-> clk ]

\* Service.ProcessEvent run without interruption on the working set cache
\* and the Summary Store table.
ProcessEvent(cache, table, data, db, clk) ==
    LET cache2 == AddUser(cache, CacheKey(data), data.user_id)
        summary == BuildSummary(cache2, data, clk)
        u == UpsertSummary(table, summary, db)
    IN  [ err |-> u.err, cache |-> cache2, table |-> u.table,
          key |-> CacheKey(data), summary |-> summary ]

\* CleanupOldCache that also deletes the keys dated on the cutoff day.
CleanupOldCache_CutoffDayToo(cache, cutoff) ==
    [k \in {x \in DOMAIN cache : x[1] > cutoff} |-> cache[k]]

\* Service.CleanupOldCache on the working set: cutoff is the day that
\* time.Now().Add(-24h).Format("2006-01-02") prints; a key is less than the
\* cutoff string exactly when its date is an earlier day.
CleanupOldCache(cache, cutoff) ==
    [k \in {x \in DOMAIN cache : x[1] >= cutoff} |-> cache[k]]

(***************************************************************************)
(* The consumer group (pkg/kafka consumer) and the goroutines of an        *)
(* analytics process: one worker per claimed partition, running the        *)
(* message handler, and the eviction sweep.  A worker is "idle" between    *)
(* messages, at "insert" while it runs lines 34-37 of ProcessEvent (the    *)
(* mutation of the working set) and at "upsert" from there to its return.  *)
(***************************************************************************)
NoProc == 0
Procs == 1 .. NumProcs

NoSweep == [on |-> FALSE, started |-> 0, cutoff |-> 0]

NoLast ==
    [ proc |-> NoProc, part |-> 0, seq |-> 0, err |-> "nil", issued |-> FALSE,
      data |-> NoEventData, summary |-> NoSummary, users |-> {} ]

CountUpsert(u, key, c) ==
    [k \in DOMAIN u \cup {key} |->
        IF k = key
        THEN [q \in Procs |->
                 (IF key \in DOMAIN u THEN u[key][q] ELSE 0)
                 + (IF q = c THEN 1 ELSE 0)]
        ELSE u[k]]

\* The message the worker of partition p is handling or will handle next.
Current(p) == log[p][pos[p] + 1]

\* The goroutines of process c that are inside a mutation of s.uniqueUsers.
NumMutating(c) ==
    Cardinality({p \in Partitions : owner[p] = c /\ pc[p] = "insert"})
    + (IF sweep[c].on THEN 1 ELSE 0)

\* ConsumeClaim marks the message when the handler has failed as well.
MarkAfterHandler_OnlyOnSuccess(err) == err = "nil"

\* ConsumeClaim: session.MarkMessage follows the handler, whatever it returned.
MarkAfterHandler(err) == TRUE

\* The end of one iteration of the loop of Consumer.ConsumeClaim on partition
\* p: the handler has returned err, the message is marked, the next awaited.
HandlerReturns(p, err) ==
    /\ pos' = [pos EXCEPT ![p] = @ + 1]
    /\ marked' = IF MarkAfterHandler(err)
                 THEN [marked EXCEPT ![p] = pos[p] + 1]
                 ELSE marked
    /\ pc' = [pc EXCEPT ![p] = "idle"]

\* A new group session does not touch the Service of the process.
WorkingSetAfterSetup_Cleared(cache) == [c \in Procs |-> EmptyMap]

WorkingSetAfterSetup(cache) == cache

\* A new group session: Consumer.Setup, then one ConsumeClaim per partition
\* assigned to the process, each starting at the committed offset.  The
\* session before it has ended, that is, its ConsumeClaim calls returned.
Setup(assignment) ==
    /\ nRebalances < MaxRebalances
    /\ \A p \in Partitions : pc[p] = "idle"
    /\ nRebalances' = nRebalances + 1
    /\ owner' = assignment
    /\ pos' = committed
    /\ marked' = committed
    /\ uniqueUsers' = WorkingSetAfterSetup(uniqueUsers)
    /\ UNCHANGED <<ingestVars, otherVars, ghostVars, summaries, pc, sweep, now,
                   last, nProcessed, committed, delivered, upserts>>

\* ConsumeClaim receives the next message of partition p and calls the
\* handler of Service.CreateMessageHandler, which decodes it.
Receive(p) ==
    /\ owner[p] # NoProc
    /\ pc[p] = "idle"
    /\ pos[p] < Len(log[p])
    /\ delivered' = [delivered EXCEPT ![p] = Append(@, Current(p).seq)]
    /\ \E d \in {Unmarshal(Current(p).value)} :
        IF d.err # "nil"
        THEN /\ HandlerReturns(p, d.err)
             /\ last' = [NoLast EXCEPT !.proc = owner[p], !.part = p,
                                       !.seq = Current(p).seq, !.err = d.err]
             /\ UNCHANGED ghostVars
        ELSE /\ pc' = [pc EXCEPT ![p] = "insert"]
             /\ firstAfter' = [firstAfter EXCEPT ![p] =
                                   CacheKey(d.data) \in evicted[owner[p]]]
             /\ evicted' = [evicted EXCEPT ![owner[p]] = @ \ {CacheKey(d.data)}]
             /\ UNCHANGED <<pos, marked, last>>
    /\ UNCHANGED <<ingestVars, otherVars, summaries, uniqueUsers, owner, sweep, now,
                   nProcessed, committed, nRebalances, upserts>>

\* ProcessEvent, lines 34-37, by the worker of partition p.
InsertUser(p) ==
    /\ pc[p] = "insert"
    /\ \E data \in {Unmarshal(Current(p).value).data} :
        uniqueUsers' = [uniqueUsers EXCEPT ![owner[p]] =
                            AddUser(@, CacheKey(data), data.user_id)]
    /\ pc' = [pc EXCEPT ![p] = "upsert"]
    /\ UNCHANGED <<ingestVars, otherVars, ghostVars, summaries, owner, pos, marked,
                   sweep, now, last, nProcessed, committed, nRebalances,
                   delivered, upserts>>

\* ProcessEvent, lines 39-54, by the worker of partition p, the return of the
\* handler and session.MarkMessage.
Upsert(p, db) ==
    /\ pc[p] = "upsert"
    /\ \E data \in {Unmarshal(Current(p).value).data} :
       \E sm \in {BuildSummary(uniqueUsers[owner[p]], data, now)} :
       \E u \in {UpsertSummary(summaries, sm, db)} :
        /\ summaries' = u.table
        /\ upserts' = IF u.err = "nil"
                      THEN CountUpsert(upserts, SummaryKey(sm), owner[p])
                      ELSE upserts
        /\ last' = [ proc |-> owner[p], part |-> p, seq |-> Current(p).seq,
                     err |-> u.err, issued |-> TRUE, data |-> data,
                     summary |-> sm,
                     users |-> IF CacheKey(data) \in DOMAIN uniqueUsers[owner[p]]
                               THEN uniqueUsers[owner[p]][CacheKey(data)]
                               ELSE {} ]
        /\ HandlerReturns(p, u.err)
    /\ firstAfter' = [firstAfter EXCEPT ![p] = FALSE]
    /\ UNCHANGED <<ingestVars, otherVars, uniqueUsers, owner, sweep, now, nProcessed,
                   committed, nRebalances, delivered, evicted>>

\* The periodic auto-commit of the offsets marked on partition p.
CommitOffsets(p) ==
    /\ owner[p] # NoProc
    /\ committed[p] < marked[p]
    /\ committed' = [committed EXCEPT ![p] = marked[p]]
    /\ UNCHANGED <<ingestVars, otherVars, ghostVars, summaries, uniqueUsers, owner,
                   pos, marked, pc, sweep, now, last, nProcessed, nRebalances,
                   delivered, upserts>>

\* The ticker of main fires in process c, which is past WaitReady:
\* CleanupOldCache computes its cutoff in the zone of the process.
SweepBegin(c, zone) ==
    /\ nRebalances > 0
    /\ ~sweep[c].on
    /\ sweep' = [sweep EXCEPT ![c] =
                    [ on |-> TRUE, started |-> now,
                      cutoff |-> FormatDate(Time(now - HoursPerDay, zone)) ]]
    /\ UNCHANGED <<ingestVars, otherVars, ghostVars, summaries, uniqueUsers, owner,
                   pos, marked, pc, now, last, nProcessed, committed, nRebalances,
                   delivered, upserts>>

\* The loop of CleanupOldCache in process c has deleted the old keys.
SweepEnd(c) ==
    /\ sweep[c].on
    /\ uniqueUsers' = [uniqueUsers EXCEPT ![c] = CleanupOldCache(@, sweep[c].cutoff)]
    /\ sweep' = [sweep EXCEPT ![c] = NoSweep]
    /\ evicted' = [evicted EXCEPT ![c] =
                      @ \cup (DOMAIN uniqueUsers[c] \
                              DOMAIN CleanupOldCache(uniqueUsers[c], sweep[c].cutoff))]
    /\ UNCHANGED <<ingestVars, otherVars, summaries, owner, pos, marked, pc, now, last,
                   nProcessed, committed, nRebalances, delivered, upserts,
                   firstAfter>>

\* Two goroutines of process c are inside a mutation of the map at once and
\* the Go runtime detects it: "fatal error: concurrent map writes".  The
\* process dies; what it marked and had not committed is lost with it.
ConcurrentMapWrites(c) ==
    /\ NumMutating(c) >= 2
    /\ uniqueUsers' = [uniqueUsers EXCEPT ![c] = EmptyMap]
    /\ owner' = [p \in Partitions |-> IF owner[p] = c THEN NoProc ELSE owner[p]]
    /\ pc' = [p \in Partitions |-> IF owner[p] = c THEN "idle" ELSE pc[p]]
    /\ pos' = [p \in Partitions |-> IF owner[p] = c THEN committed[p] ELSE pos[p]]
    /\ marked' = [p \in Partitions |->
                     IF owner[p] = c THEN committed[p] ELSE marked[p]]
    /\ sweep' = [sweep EXCEPT ![c] = NoSweep]
    /\ evicted' = [evicted EXCEPT ![c] = {}]
    /\ firstAfter' = [p \in Partitions |->
                         IF owner[p] = c THEN FALSE ELSE firstAfter[p]]
    /\ UNCHANGED <<ingestVars, otherVars, summaries, now, last, nProcessed, committed,
                   nRebalances, delivered, upserts>>

\* Time passes.
Tick ==
    /\ now < StartHour + MaxTicks * HoursPerDay
    /\ now' = now + HoursPerDay
    /\ UNCHANGED <<ingestVars, otherVars, ghostVars, summaries, uniqueUsers, owner,
                   pos, marked, pc, sweep, last, nProcessed, committed, nRebalances,
                   delivered, upserts>>

(***************************************************************************)
(* The last call of the read side: GetEventStats, GetTopProducts,          *)
(* GetUserActivity, MarkAsProcessed.                                       *)
(***************************************************************************)
NoQueryResp ==
    [ op |-> "none", code |-> "OK", req |-> << >>, fetched |-> << >>,
      stats |-> << >>, total_count |-> 0, products |-> << >>,
      user_id |-> "", events |-> << >>, total_events |-> 0 ]

(***************************************************************************)
(* The Read Aggregator (internal/query) over the Summary Store.            *)
(***************************************************************************)
\* A DATE column scanned into a time.Time: midnight UTC of the day.
ScanDate(d) == Time(d * HoursPerDay, UTC)

\* A row of analytics_summary scanned into an analytics.Summary.
ScanSummary(r) == [r EXCEPT !.date = ScanDate(r.date)]

\* The rows the SELECT of GetSummariesByDateRange matches: from and to are
\* bound to comparisons with a DATE column.
MatchingSummaries(table, from, to, eventType) ==
    { r \in table :
        /\ r.date >= SqlDate(from)
        /\ r.date <= SqlDate(to)
        /\ (eventType # "" => r.event_type = eventType) }

\* ORDER BY date, hour: the orders in which the store may return rows S.
FetchOrders(S) ==
    { o \in Orders(S) :
        \A i \in DOMAIN o, j \in DOMAIN o :
            i < j => \/ o[i].date < o[j].date
                     \/ (o[i].date = o[j].date /\ o[i].hour <= o[j].hour) }

\* repository.GetSummariesByDateRange; o is the order the rows came in.
GetSummariesByDateRange(o, db) ==
    IF db = "fail"
    THEN [err |-> "failed to get summaries", summaries |-> << >>]
    ELSE [err |-> "nil", summaries |-> [i \in DOMAIN o |-> ScanSummary(o[i])]]

\* time.Date(Year, Month, Day of tm, hour, 0, 0, 0, time.UTC).
DateAtHour(tm, hour) == Time(FormatDate(tm) * HoursPerDay + hour, UTC)

\* Time.Format("2006-01-02-15"): the day and the hour in the zone of tm.
FormatDateHour(tm) == <<FormatDate(tm), Hour(tm)>>

\* groupByGranularity, the switch: the bucket timestamp of a summary.
BucketTimestamp(sm, granularity) ==
    IF granularity = "day" THEN sm.date ELSE DateAtHour(sm.date, sm.hour)

\* A grouping key that leaves the event type out.
GroupKey_NoEventType(sm, granularity) ==
    IF granularity = "day"
    THEN <<FormatDate(BucketTimestamp(sm, granularity)), "">>
    ELSE <<FormatDateHour(BucketTimestamp(sm, granularity)), "">>

\* groupByGranularity, the switch: the key "<bucket>-<event type>".
GroupKey(sm, granularity) ==
    IF granularity = "day"
    THEN <<FormatDate(BucketTimestamp(sm, granularity)), sm.event_type>>
    ELSE <<FormatDateHour(BucketTimestamp(sm, granularity)), sm.event_type>>

\* A merge that adds the distinct counts up.
MergeUniqueUsers_Sum(stat, incoming) == stat + incoming

\* if summary.UniqueUsers > stat.UniqueUsers { stat.UniqueUsers = ... }
MergeUniqueUsers(stat, incoming) == IF incoming > stat THEN incoming ELSE stat

\* groupByGranularity, the loop over summaries from the i-th on.
RECURSIVE GroupInto(_, _, _, _)
GroupInto(grouped, sums, i, granularity) ==
    IF i > Len(sums) THEN grouped
    ELSE LET sm == sums[i]
             key == GroupKey(sm, granularity)
         IN  GroupInto(
                 [ k \in DOMAIN grouped \cup {key} |->
                     IF k # key THEN grouped[k]
                     ELSE IF key \in DOMAIN grouped
                     THEN [ grouped[key] EXCEPT
                              !.total_events = @ + sm.total_events,
                              !.unique_users =
                                  MergeUniqueUsers(@, sm.unique_users) ]
                     ELSE [ timestamp |-> BucketTimestamp(sm, granularity),
                            event_type |-> sm.event_type,
                            total_events |-> sm.total_events,
                            unique_users |-> sm.unique_users ] ],
                 sums, i + 1, granularity)

Grouped(sums, granularity) == GroupInto(EmptyMap, sums, 1, granularity)

\* groupByGranularity; out is the order in which range walks the map.
groupByGranularity(sums, granularity, out) ==
    [i \in DOMAIN out |-> Grouped(sums, granularity)[out[i]]]

\* Service.GetEventStats.
GetEventStats(o, granularity, db, out) ==
    LET r == GetSummariesByDateRange(o, db)
    IN  IF r.err # "nil"
        THEN [err |-> "failed to get summaries", fetched |-> << >>,
              stats |-> << >>]
        ELSE [err |-> "nil", fetched |-> r.summaries,
              stats |-> groupByGranularity(r.summaries, granularity, out)]

\* Handler.GetEventStats on a request whose from and to are set: AsTime()
\* gives them in UTC.
HandlerGetEventStats(req, o, db, out) ==
    /\ nCalls' = nCalls + 1
    /\ req.from # NULL /\ req.to # NULL
    /\ o \in FetchOrders(MatchingSummaries(summaries, Time(req.from, UTC),
                                            Time(req.to, UTC), req.event_type))
    /\ out \in Orders(DOMAIN Grouped(GetSummariesByDateRange(o, "ok").summaries,
                                      req.granularity))
    /\ \E r \in {GetEventStats(o, req.granularity, db, out)} :
        qresp' = IF r.err # "nil"
                 THEN [NoQueryResp EXCEPT !.op = "GetEventStats",
                                          !.code = "Internal", !.req = req]
                 ELSE [NoQueryResp EXCEPT !.op = "GetEventStats", !.req = req,
                                          !.fetched = r.fetched,
                                          !.stats = r.stats,
                                          !.total_count = Len(r.stats)]
    /\ UNCHANGED <<events, log, nFresh, resp, consumerVars, processVars>>

\* Handler.GetEventStats on a request without from or without to.
HandlerGetEventStatsInvalid(req) ==
    /\ nCalls' = nCalls + 1
    /\ (req.from = NULL \/ req.to = NULL)
    /\ qresp' = [NoQueryResp EXCEPT !.op = "GetEventStats",
                                    !.code = "InvalidArgument", !.req = req]
    /\ UNCHANGED <<events, log, nFresh, resp, consumerVars, processVars>>

(***************************************************************************)
(* Top products, computed over the raw events (analytics/repository.go,    *)
(* internal/query).                                                        *)
(***************************************************************************)
\* The rows the WHERE of GetTopProducts keeps, with a range that leaves
\* out the events created at its upper end.
ProductRows_HalfOpen(store, from, to) ==
    { e \in store :
        e.product_id # NULL /\ e.created_at >= from /\ e.created_at < to }

\* WHERE product_id IS NOT NULL AND created_at >= $1 AND created_at <= $2
ProductRows(store, from, to) ==
    { e \in store :
        e.product_id # NULL /\ e.created_at >= from /\ e.created_at <= to }

\* The CTE product_events: COUNT(*) GROUP BY product_id, event_type, user_id.
ProductEvents(store, from, to) ==
    LET rows == ProductRows(store, from, to)
    IN  { [ product_id |-> e.product_id, event_type |-> e.event_type,
            user_id |-> e.user_id,
            event_count |->
                Cardinality({x \in rows : /\ x.product_id = e.product_id
                                          /\ x.event_type = e.event_type
                                          /\ x.user_id = e.user_id}) ] :
          e \in rows }

\* SUM(event_count) over the rows S of product_events.
RECURSIVE SumEventCount(_)
SumEventCount(S) ==
    IF S = {} THEN 0
    ELSE LET r == CHOOSE x \in S : TRUE
         IN  r.event_count + SumEventCount(S \ {r})

\* The CTE product_stats and the final SELECT, scanned into ProductStats:
\* one row per product_id.
ProductStatsRows(pe) ==
    { [ product_id |-> UuidString(p),
        event_count |-> SumEventCount({r \in pe : r.product_id = p}),
        unique_users |-> Cardinality({r.user_id : r \in {x \in pe : x.product_id = p}}),
        conversion_rate |-> 0 ] :
      p \in {r.product_id : r \in pe} }

\* ORDER BY total_events DESC: the orders in which the store may return S.
TopOrders(S) ==
    { o \in Orders(S) :
        \A i \in DOMAIN o, j \in DOMAIN o :
            i < j => o[i].event_count >= o[j].event_count }

\* LIMIT n
Limit(o, n) == SubSeq(o, 1, IF n < Len(o) THEN n ELSE Len(o))

\* repository.GetTopProducts; o is the order the rows came in.  A negative
\* LIMIT is an error of the database.
RepositoryGetTopProducts(o, limit, db) ==
    IF db = "fail" \/ limit < 0
    THEN [err |-> "failed to get top products", products |-> << >>]
    ELSE [err |-> "nil", products |-> Limit(o, limit)]

\* Service.GetTopProducts: eventType is not used.
GetTopProducts(o, limit, eventType, db) ==
    LET r == RepositoryGetTopProducts(o, limit, db)
    IN  IF r.err # "nil"
        THEN [err |-> "failed to get top products", products |-> << >>]
        ELSE [err |-> "nil", products |-> r.products]

\* The limit Handler.GetTopProducts uses when the request has none.
DefaultLimit == 10

\* Handler.GetTopProducts on a request whose from and to are set.
HandlerGetTopProducts(req, o, db) ==
    /\ nCalls' = nCalls + 1
    /\ req.from # NULL /\ req.to # NULL
    /\ o \in TopOrders(ProductStatsRows(ProductEvents(events, req.from, req.to)))
    /\ \E limit \in {IF req.limit <= 0 THEN DefaultLimit ELSE req.limit} :
       \E r \in {GetTopProducts(o, limit, req.event_type, db)} :
        qresp' = IF r.err # "nil"
                 THEN [NoQueryResp EXCEPT !.op = "GetTopProducts",
                                          !.code = "Internal", !.req = req]
                 ELSE [NoQueryResp EXCEPT !.op = "GetTopProducts", !.req = req,
                                          !.products = r.products]
    /\ UNCHANGED <<events, log, nFresh, resp, consumerVars, processVars>>

\* Handler.GetTopProducts on a request without from or without to.
HandlerGetTopProductsInvalid(req) ==
    /\ nCalls' = nCalls + 1
    /\ (req.from = NULL \/ req.to = NULL)
    /\ qresp' = [NoQueryResp EXCEPT !.op = "GetTopProducts",
                                    !.code = "InvalidArgument", !.req = req]
    /\ UNCHANGED <<events, log, nFresh, resp, consumerVars, processVars>>

(***************************************************************************)
(* User activity, read from the raw events (internal/query).               *)
(***************************************************************************)
\* The rows of the range whoever their user is.
UserRows_AnyUser(store, userID, from, to) ==
    { e \in store : e.created_at >= from /\ e.created_at <= to }

\* WHERE user_id = $1 AND created_at >= $2 AND created_at <= $3
UserRows(store, userID, from, to) ==
    { e \in store :
        e.user_id = userID /\ e.created_at >= from /\ e.created_at <= to }

\* ORDER BY created_at DESC: the orders in which the store may return S.
ActivityOrders(S) ==
    { o \in Orders(S) :
        \A i \in DOMAIN o, j \in DOMAIN o :
            i < j => o[i].created_at >= o[j].created_at }

\* repository.GetByUserID; o is the order the rows came in.  A negative
\* LIMIT is an error of the database.
GetByUserID(o, limit, db) ==
    IF db = "fail" \/ limit < 0
    THEN [err |-> "failed to get user events", events |-> << >>]
    ELSE [err |-> "nil", events |-> Limit(o, limit)]

\* Service.GetUserActivity that counts every row of the range.
GetUserActivity_CountsRange(o, limit, db) ==
    LET r == GetByUserID(o, limit, db)
    IN  IF r.err # "nil"
        THEN [err |-> "failed to get user activity", events |-> << >>,
              totalCount |-> 0]
        ELSE [err |-> "nil", events |-> r.events, totalCount |-> Len(o)]

\* Service.GetUserActivity: totalCount is len(events).
GetUserActivity(o, limit, db) ==
    LET r == GetByUserID(o, limit, db)
    IN  IF r.err # "nil"
        THEN [err |-> "failed to get user activity", events |-> << >>,
              totalCount |-> 0]
        ELSE [err |-> "nil", events |-> r.events, totalCount |-> Len(r.events)]

\* The limit Handler.GetUserActivity uses when the request has none.
ActivityDefaultLimit == 100

\* The pb.UserEvent Handler.GetUserActivity makes of a row.
UserEvent(e) ==
    [ event_id |-> UuidString(e.id), event_type |-> e.event_type,
      timestamp |-> Time(e.created_at, UTC),
      product_id |-> IF e.product_id # NULL THEN UuidString(e.product_id) ELSE "" ]

\* Handler.GetUserActivity on a request with a well-formed user_id whose
\* from and to are set.
HandlerGetUserActivity(req, o, db) ==
    /\ nCalls' = nCalls + 1
    /\ ParseUUID(req.user_id).ok
    /\ req.from # NULL /\ req.to # NULL
    /\ o \in ActivityOrders(UserRows(events, ParseUUID(req.user_id).v,
                                     req.from, req.to))
    /\ \E limit \in {IF req.limit <= 0 THEN ActivityDefaultLimit ELSE req.limit} :
       \E r \in {GetUserActivity(o, limit, db)} :
        qresp' = IF r.err # "nil"
                 THEN [NoQueryResp EXCEPT !.op = "GetUserActivity",
                                          !.code = "Internal", !.req = req]
                 ELSE [NoQueryResp EXCEPT
                          !.op = "GetUserActivity", !.req = req,
                          !.user_id = req.user_id,
                          !.events = [i \in DOMAIN r.events |-> UserEvent(r.events[i])],
                          !.total_events = r.totalCount]
    /\ UNCHANGED <<events, log, nFresh, resp, consumerVars, processVars>>

\* Handler.GetUserActivity on a request whose user_id does not parse, or
\* without from or without to.
HandlerGetUserActivityInvalid(req) ==
    /\ nCalls' = nCalls + 1
    /\ (~ParseUUID(req.user_id).ok \/ req.from = NULL \/ req.to = NULL)
    /\ qresp' = [NoQueryResp EXCEPT !.op = "GetUserActivity",
                                    !.code = "InvalidArgument", !.req = req]
    /\ UNCHANGED <<events, log, nFresh, resp, consumerVars, processVars>>

(***************************************************************************)
(* A call of repository.MarkAsProcessed on the Event Store.                *)
(***************************************************************************)
CallMarkAsProcessed(id, db) ==
    /\ \E r \in {MarkAsProcessed(events, id, now, db)} :
        /\ events' = r.store
        /\ qresp' = [NoQueryResp EXCEPT !.op = "MarkAsProcessed", !.code = r.err,
                                        !.req = [id |-> id]]
    /\ UNCHANGED <<log, nFresh, nCalls, resp, consumerVars, processVars>>

(***************************************************************************)
(* The aggregation process (cmd/analytics-service main) and its consumer   *)
(* (pkg/kafka Consumer): start, group sessions, signal, shutdown.          *)
(***************************************************************************)
InitProcess ==
    /\ mainPc = "new"
    /\ exitBy = "none"
    /\ group = "none"
    /\ startPc = "none"
    /\ ready = 0
    /\ closedReady = {}
    /\ mainReady = NULL
    /\ claims = {}
    /\ running = {}
    /\ signalled = FALSE
    /\ cancelled = FALSE
    /\ elapsed = 0
    /\ drainedAt = NULL
    /\ nJoined = 0
    /\ nFailed = 0

Alive == exitBy = "none"

\* main, lines 52-64: kafka.NewConsumer.  When sarama.NewConsumerGroup
\* returns an error, log.Fatal ends the process.
NewConsumer(out) ==
    /\ Alive /\ mainPc = "new"
    /\ IF out = "fail"
       THEN /\ mainPc' = "exited"
            /\ exitBy' = "fatal"
            /\ UNCHANGED group
       ELSE /\ mainPc' = "start"
            /\ group' = "open"
            /\ UNCHANGED exitBy
    /\ UNCHANGED <<ingestVars, consumerVars, qresp, startPc, ready, closedReady,
                   mainReady, claims, running, signalled, cancelled, elapsed,
                   drainedAt, nJoined, nFailed>>

\* main, lines 66-73: the goroutine that runs consumer.Start(ctx).
GoStart ==
    /\ Alive /\ mainPc = "start"
    /\ mainPc' = "started"
    /\ startPc' = "consume"
    /\ UNCHANGED <<ingestVars, consumerVars, qresp, exitBy, group, ready, closedReady,
                   mainReady, claims, running, signalled, cancelled, elapsed,
                   drainedAt, nJoined, nFailed>>

\* main, line 75: consumer.WaitReady() returns the channel Consumer.ready
\* holds at that moment.
WaitReady ==
    /\ Alive /\ mainPc = "started"
    /\ mainPc' = "waitReady"
    /\ mainReady' = ready
    /\ UNCHANGED <<ingestVars, consumerVars, qresp, exitBy, group, startPc, ready,
                   closedReady, claims, running, signalled, cancelled, elapsed,
                   drainedAt, nJoined, nFailed>>

\* Start, lines 150-160: a call of consumerGroup.Consume that fails to join
\* the group.  The error is logged, the context is not cancelled, a new
\* ready channel replaces the old one and the loop calls Consume again.
ConsumeFails ==
    /\ Alive /\ startPc = "consume" /\ ~cancelled
    /\ nJoined + nFailed < MaxJoins
    /\ nFailed' = nFailed + 1
    /\ ready' = ready + 1
    /\ UNCHANGED <<ingestVars, consumerVars, qresp, mainPc, exitBy, group, startPc,
                   closedReady, mainReady, claims, running, signalled, cancelled,
                   elapsed, drainedAt, nJoined>>

\* Start, line 150, and Setup, lines 180-184: Consume joins the group, Setup
\* closes the ready channel, and a ConsumeClaim loop starts for each claim.
ConsumeJoins(assigned) ==
    /\ Alive /\ startPc = "consume" /\ ~cancelled
    /\ nJoined + nFailed < MaxJoins
    /\ nJoined' = nJoined + 1
    /\ closedReady' = closedReady \cup {ready}
    /\ claims' = assigned
    /\ startPc' = "session"
    /\ UNCHANGED <<ingestVars, consumerVars, qresp, mainPc, exitBy, group, ready,
                   mainReady, running, signalled, cancelled, elapsed, drainedAt,
                   nFailed>>

\* Start, lines 150-158: Consume returns with the context cancelled, and
\* the goroutine returns.
ConsumeCancelled ==
    /\ Alive /\ cancelled
    /\ \/ startPc = "consume"
       \/ startPc = "session" /\ claims = {}
    /\ startPc' = "returned"
    /\ drainedAt' = elapsed
    /\ UNCHANGED <<ingestVars, consumerVars, qresp, mainPc, exitBy, group, ready,
                   closedReady, mainReady, claims, running, signalled, cancelled,
                   elapsed, nJoined, nFailed>>

\* Start, lines 150-160: the session ends by a rebalance of the group once
\* its ConsumeClaim loops have returned; Consume returns nil, a new ready
\* channel replaces the old one.
SessionEnds ==
    /\ Alive /\ startPc = "session" /\ ~cancelled
    /\ running = {}
    /\ claims' = {}
    /\ startPc' = "consume"
    /\ ready' = ready + 1
    /\ UNCHANGED <<ingestVars, consumerVars, qresp, mainPc, exitBy, group,
                   closedReady, mainReady, running, signalled, cancelled, elapsed,
                   drainedAt, nJoined, nFailed>>

\* ConsumeClaim, lines 195-208: the loop of partition p takes a message and
\* calls the handler.
ClaimHandlerStarts(p) ==
    /\ Alive /\ startPc = "session"
    /\ p \in claims \ running
    /\ running' = running \cup {p}
    /\ UNCHANGED <<ingestVars, consumerVars, qresp, mainPc, exitBy, group, startPc,
                   ready, closedReady, mainReady, claims, signalled, cancelled,
                   elapsed, drainedAt, nJoined, nFailed>>

\* ConsumeClaim, lines 208-217: the handler of partition p returns.
ClaimHandlerReturns(p) ==
    /\ Alive
    /\ p \in running
    /\ running' = running \ {p}
    /\ UNCHANGED <<ingestVars, consumerVars, qresp, mainPc, exitBy, group, startPc,
                   ready, closedReady, mainReady, claims, signalled, cancelled,
                   elapsed, drainedAt, nJoined, nFailed>>

\* ConsumeClaim, lines 219-220: the loop of partition p, between two
\* messages, finds the context of the session done and returns.
ClaimReturns(p) ==
    /\ Alive /\ cancelled
    /\ p \in claims \ running
    /\ claims' = claims \ {p}
    /\ UNCHANGED <<ingestVars, consumerVars, qresp, mainPc, exitBy, group, startPc,
                   ready, closedReady, mainReady, running, signalled, cancelled,
                   elapsed, drainedAt, nJoined, nFailed>>

\* main, lines 75-90: the channel main waits on is closed.
MainReady ==
    /\ Alive /\ mainPc = "waitReady"
    /\ mainReady \in closedReady
    /\ mainPc' = "ready"
    /\ UNCHANGED <<ingestVars, consumerVars, qresp, exitBy, group, startPc, ready,
                   closedReady, mainReady, claims, running, signalled, cancelled,
                   elapsed, drainedAt, nJoined, nFailed>>

\* main, lines 92-94: signal.Notify, then main waits for a signal.
Notify ==
    /\ Alive /\ mainPc = "ready"
    /\ mainPc' = "waitQuit"
    /\ UNCHANGED <<ingestVars, consumerVars, qresp, exitBy, group, startPc, ready,
                   closedReady, mainReady, claims, running, signalled, cancelled,
                   elapsed, drainedAt, nJoined, nFailed>>

\* SIGINT or SIGTERM is sent to the process.  Before signal.Notify the
\* signal has its default disposition and ends the process at once.
Signal ==
    /\ Alive /\ ~signalled
    /\ signalled' = TRUE
    /\ IF mainPc = "waitQuit"
       THEN UNCHANGED <<mainPc, exitBy>>
       ELSE mainPc' = "exited" /\ exitBy' = "killed"
    /\ UNCHANGED <<ingestVars, consumerVars, qresp, group, startPc, ready,
                   closedReady, mainReady, claims, running, cancelled, elapsed,
                   drainedAt, nJoined, nFailed>>

\* main, lines 94-102: the signal is received, the context is cancelled and
\* main waits for the 30 seconds of shutdownCtx.
Quit ==
    /\ Alive /\ mainPc = "waitQuit" /\ signalled
    /\ cancelled' = TRUE
    /\ mainPc' = "grace"
    /\ UNCHANGED <<ingestVars, consumerVars, qresp, exitBy, group, startPc, ready,
                   closedReady, mainReady, claims, running, signalled, elapsed,
                   drainedAt, nJoined, nFailed>>

\* main, line 102: time passes while main waits for shutdownCtx.
GraceTick ==
    /\ Alive /\ mainPc = "grace"
    /\ elapsed < GraceTicks
    /\ elapsed' = elapsed + 1
    /\ UNCHANGED <<ingestVars, consumerVars, qresp, mainPc, exitBy, group, startPc,
                   ready, closedReady, mainReady, claims, running, signalled,
                   cancelled, drainedAt, nJoined, nFailed>>

\* main, lines 102-105, and Close, lines 170-177: shutdownCtx is done, main
\* returns, the deferred consumer.Close() closes the group and the process
\* ends with whatever is still running.
MainReturns ==
    /\ Alive /\ mainPc = "grace"
    /\ elapsed = GraceTicks
    /\ group' = "closed"
    /\ mainPc' = "exited"
    /\ exitBy' = "returned"
    /\ UNCHANGED <<ingestVars, consumerVars, qresp, startPc, ready, closedReady,
                   mainReady, claims, running, signalled, cancelled, elapsed,
                   drainedAt, nJoined, nFailed>>

(***************************************************************************)
(* Specifications.                                                         *)
(***************************************************************************)
Init ==
    /\ events = {}
    /\ log = [p \in Partitions |-> << >>]
    /\ nFresh = 0
    /\ nCalls = 0
    /\ resp = NoResp
    /\ summaries = {}
    /\ uniqueUsers = [c \in Procs |-> EmptyMap]
    /\ owner = [p \in Partitions |-> NoProc]
    /\ pos = [p \in Partitions |-> 0]
    /\ marked = [p \in Partitions |-> 0]
    /\ pc = [p \in Partitions |-> "idle"]
    /\ sweep = [c \in Procs |-> NoSweep]
    /\ now = StartHour
    /\ last = NoLast
    /\ nProcessed = 0
    /\ committed = [p \in Partitions |-> 0]
    /\ nRebalances = 0
    /\ delivered = [p \in Partitions |-> << >>]
    /\ upserts = EmptyMap
    /\ evicted = [c \in Procs |-> {}]
    /\ firstAfter = [p \in Partitions |-> FALSE]
    /\ qresp = NoQueryResp
    /\ InitProcess

\* The ingestion RPCs alone.
Next ==
    \/ TrackEventStep
    \/ TrackEventBatchStep

Spec == Init /\ [][Next]_vars

\* The well-formed events of the pipeline specifications.
PipelineEvents ==
    [ event_id : {""},
      event_type : {"EVENT_TYPE_PAGE_VIEW"},
      user_id : {"u1", "u2"},
      session_id : {"s1"},
      product_id : {""},
      timestamp : {9, 34} ]

PipelineTrackEventStep ==
    /\ nCalls < MaxPipelineCalls
    /\ \E req \in PipelineEvents, pub \in Outcomes :
           HandlerTrackEvent(req, "ok", pub)

\* A batch of one well-formed event, stored and published without failure.
PipelineTrackEventBatchStep ==
    /\ nCalls < MaxPipelineCalls
    /\ \E req \in PipelineEvents :
       \E c \in {ConvertAll(<< req >>, 1, nFresh)} :
       \E order \in Orders(BatchKeys(c.events)) :
           HandlerTrackEventBatch(<< req >>, c, "ok",
                                  [i \in DOMAIN c.events |-> "ok"], order,
                                  [k \in BatchKeys(c.events) |-> "ok"])

SetupStep == \E assignment \in [Partitions -> Procs] : Setup(assignment)

ReceiveStep == \E p \in Partitions : Receive(p)

InsertUserStep == \E p \in Partitions : InsertUser(p)

UpsertStep == \E p \in Partitions, db \in Outcomes : Upsert(p, db)

CommitOffsetsStep == \E p \in Partitions : CommitOffsets(p)

Zones == {-5, 0, 3}

SweepBeginStep == \E c \in Procs, zone \in Zones : SweepBegin(c, zone)

SweepEndStep == \E c \in Procs : SweepEnd(c)

ConcurrentMapWritesStep == \E c \in Procs : ConcurrentMapWrites(c)

\* The pipeline: the ingestion of well-formed events, the consumer group
\* with its rebalances and commits, and the workers of the processes.
NextPipeline ==
    \/ PipelineTrackEventStep
    \/ PipelineTrackEventBatchStep
    \/ SetupStep
    \/ ReceiveStep
    \/ InsertUserStep
    \/ UpsertStep
    \/ CommitOffsetsStep
    \/ ConcurrentMapWritesStep

SpecPipeline == Init /\ [][NextPipeline]_vars

FirstSetupStep == nRebalances = 0 /\ SetupStep

\* The working set over time: one group session, the workers, the clock and
\* the eviction sweeps.
NextWorkingSet ==
    \/ PipelineTrackEventStep
    \/ FirstSetupStep
    \/ ReceiveStep
    \/ InsertUserStep
    \/ UpsertStep
    \/ SweepBeginStep
    \/ SweepEndStep
    \/ ConcurrentMapWritesStep
    \/ Tick

SpecWorkingSet == Init /\ [][NextWorkingSet]_vars

\* The decoded events a topic may carry, in any zone.
EventDatas ==
    [ id : {"e1"},
      event_type : {EventTypePageView},
      user_id : {"u1", "u2"},
      created_at : {Time(t, off) : t \in {9, 33}, off \in Zones} ]

\* Service.ProcessEvent of process c on a decoded event, run alone.
ProcessEventStep(c, data, db) ==
    /\ nProcessed < MaxProcessed
    /\ nProcessed' = nProcessed + 1
    /\ \E r \in {ProcessEvent(uniqueUsers[c], summaries, data, db, now)} :
        /\ uniqueUsers' = [uniqueUsers EXCEPT ![c] = r.cache]
        /\ summaries' = r.table
        /\ upserts' = IF r.err = "nil"
                      THEN CountUpsert(upserts, SummaryKey(r.summary), c)
                      ELSE upserts
        /\ last' = [NoLast EXCEPT !.proc = c, !.err = r.err, !.issued = TRUE,
                                  !.data = data, !.summary = r.summary,
                                  !.users = r.cache[r.key]]
    /\ UNCHANGED <<ingestVars, otherVars, ghostVars, owner, pos, marked, pc, sweep,
                   now, committed, nRebalances, delivered>>

ProcessEventAnyStep ==
    \E c \in Procs, data \in EventDatas, db \in Outcomes : ProcessEventStep(c, data, db)

\* The aggregation step alone, on any decoded event.
NextAggregation ==
    \/ ProcessEventAnyStep
    \/ Tick

SpecAggregation == Init /\ [][NextAggregation]_vars

\* The rows a Summary Store may hold: at most one per (date, hour,
\* event_type), the hour within 0 .. 23, the counts positive.
QueryKeys == {0, 1} \X {9, 10} \X {EventTypePageView, EventTypePurchase}

QueryCounts == (1 .. MaxTotal) \X (1 .. MaxTotal)

QueryRow(k, v) ==
    [ date |-> k[1], hour |-> k[2], event_type |-> k[3], total_events |-> v[1],
      unique_users |-> v[2], metadata |-> NoMetadata, updated_at |-> StartHour ]

InitQuery ==
    /\ \E K \in {S \in SUBSET QueryKeys : Cardinality(S) <= MaxRows} :
       \E f \in [K -> QueryCounts] :
           summaries = {QueryRow(k, f[k]) : k \in K}
    /\ events = {}
    /\ log = [p \in Partitions |-> << >>]
    /\ nFresh = 0
    /\ nCalls = 0
    /\ resp = NoResp
    /\ uniqueUsers = [c \in Procs |-> EmptyMap]
    /\ owner = [p \in Partitions |-> NoProc]
    /\ pos = [p \in Partitions |-> 0]
    /\ marked = [p \in Partitions |-> 0]
    /\ pc = [p \in Partitions |-> "idle"]
    /\ sweep = [c \in Procs |-> NoSweep]
    /\ now = StartHour
    /\ last = NoLast
    /\ nProcessed = 0
    /\ committed = [p \in Partitions |-> 0]
    /\ nRebalances = 0
    /\ delivered = [p \in Partitions |-> << >>]
    /\ upserts = EmptyMap
    /\ evicted = [c \in Procs |-> {}]
    /\ firstAfter = [p \in Partitions |-> FALSE]
    /\ qresp = NoQueryResp
    /\ InitProcess

\* GetEventStats requests: 9 is 09:00 of day 0, 33 is 09:00 of day 1.
StatsRequests ==
    [ from : {NULL, 9}, to : {NULL, 9, 33},
      event_type : {"", EventTypePageView},
      granularity : {"hour", "day", ""} ]

GetEventStatsStep ==
    /\ nCalls < MaxQueries
    /\ \E req \in StatsRequests :
        \/ HandlerGetEventStatsInvalid(req)
        \/ \E o \in Orders(MatchingSummaries(summaries, Time(req.from, UTC),
                                             Time(req.to, UTC), req.event_type)),
              db \in Outcomes :
            \E out \in Orders(DOMAIN Grouped(
                                 GetSummariesByDateRange(o, "ok").summaries,
                                 req.granularity)) :
                HandlerGetEventStats(req, o, db, out)

\* The Read Aggregator alone, over any Summary Store.
NextQuery == GetEventStatsStep

SpecQuery == InitQuery /\ [][NextQuery]_vars

\* The events of the end-to-end scenario: one user, one event type, the
\* hours 09, 10 and 11 of day 0.
ScenarioEvents ==
    [ event_id : {""},
      event_type : {"EVENT_TYPE_PAGE_VIEW"},
      user_id : {"u1"},
      session_id : {"s1"},
      product_id : {""},
      timestamp : {9, 10, 11} ]

\* TrackEvent of a scenario event of an hour not sent before.
ScenarioTrackEventStep ==
    /\ nCalls < MaxScenarioCalls
    /\ \E req \in ScenarioEvents, pub \in Outcomes :
           /\ \A e \in events : e.created_at # req.timestamp
           /\ HandlerTrackEvent(req, "ok", pub)

\* GetEventStats with day granularity over day 0.
ScenarioRequests ==
    [ from : {0, 9}, to : {11, 23}, event_type : {"", EventTypePageView},
      granularity : {"day"} ]

ScenarioGetEventStatsStep ==
    /\ nCalls < MaxScenarioCalls
    /\ \E req \in ScenarioRequests :
       \E o \in Orders(MatchingSummaries(summaries, Time(req.from, UTC),
                                         Time(req.to, UTC), req.event_type)),
          db \in Outcomes :
       \E out \in Orders(DOMAIN Grouped(GetSummariesByDateRange(o, "ok").summaries,
                                        req.granularity)) :
           HandlerGetEventStats(req, o, db, out)

\* Ingestion, one group session, the workers and the Read Aggregator.
NextEndToEnd ==
    \/ ScenarioTrackEventStep
    \/ FirstSetupStep
    \/ ReceiveStep
    \/ InsertUserStep
    \/ UpsertStep
    \/ ScenarioGetEventStatsStep

SpecEndToEnd == Init /\ [][NextEndToEnd]_vars

\* Everything but the rows of table events is as after construction.
InitExceptEvents ==
    /\ log = [p \in Partitions |-> << >>]
    /\ nFresh = 0
    /\ nCalls = 0
    /\ resp = NoResp
    /\ summaries = {}
    /\ uniqueUsers = [c \in Procs |-> EmptyMap]
    /\ owner = [p \in Partitions |-> NoProc]
    /\ pos = [p \in Partitions |-> 0]
    /\ marked = [p \in Partitions |-> 0]
    /\ pc = [p \in Partitions |-> "idle"]
    /\ sweep = [c \in Procs |-> NoSweep]
    /\ now = StartHour
    /\ last = NoLast
    /\ nProcessed = 0
    /\ committed = [p \in Partitions |-> 0]
    /\ nRebalances = 0
    /\ delivered = [p \in Partitions |-> << >>]
    /\ upserts = EmptyMap
    /\ evicted = [c \in Procs |-> {}]
    /\ firstAfter = [p \in Partitions |-> FALSE]
    /\ qresp = NoQueryResp
    /\ InitProcess

\* Rows of table events: valid events of two users about no product, p1 or
\* p2, created at 09:00 of day 0 or at 10:00 of day 1.
StoredEvent(id, f) ==
    [ NoEvent EXCEPT !.id = id, !.event_type = f[1], !.user_id = f[2],
                     !.session_id = UuidTable["s1"], !.product_id = f[3],
                     !.created_at = f[4] ]

StoredFields ==
    {EventTypeProductView, EventTypePurchase}
    \X {UuidTable["u1"], UuidTable["u2"]}
    \X {NULL, UuidTable["p1"], UuidTable["p2"]}
    \X {9, 34}

\* Any Event Store of at most MaxStored rows, with identifiers e1, e2, ...
InitTopProducts ==
    /\ \E n \in 0 .. MaxStored :
       \E f \in [1 .. n -> StoredFields] :
           events = {StoredEvent(i, f[i]) : i \in 1 .. n}
    /\ InitExceptEvents

TopProductsRequests ==
    [ from : {NULL, 0, 10}, to : {NULL, 9, 40}, limit : {0, 1, 2},
      event_type : {"", EventTypePurchase} ]

GetTopProductsStep ==
    /\ nCalls < MaxQueries
    /\ \E req \in TopProductsRequests :
        \/ HandlerGetTopProductsInvalid(req)
        \/ /\ req.from # NULL /\ req.to # NULL
           /\ \E o \in Orders(ProductStatsRows(
                                  ProductEvents(events, req.from, req.to))),
                 db \in Outcomes :
                  HandlerGetTopProducts(req, o, db)

\* The top-products query alone, over any Event Store.
NextTopProducts == GetTopProductsStep

SpecTopProducts == InitTopProducts /\ [][NextTopProducts]_vars

\* Rows of table events of two users, created at four different hours.
ActivityFields ==
    {EventTypePageView}
    \X {UuidTable["u1"], UuidTable["u2"]}
    \X {NULL, UuidTable["p1"]}
    \X {5, 9, 10, 34}

\* Any Event Store of at most MaxStored rows, with identifiers e1, e2, ...
InitUserActivity ==
    /\ \E n \in 0 .. MaxStored :
       \E f \in [1 .. n -> ActivityFields] :
           events = {StoredEvent(i, f[i]) : i \in 1 .. n}
    /\ InitExceptEvents

UserActivityRequests ==
    [ user_id : {"u1", "bad"}, from : {NULL, 9}, to : {NULL, 10, 40},
      limit : {-1, 0, 1, 2} ]

GetUserActivityStep ==
    /\ nCalls < MaxQueries
    /\ \E req \in UserActivityRequests :
        \/ HandlerGetUserActivityInvalid(req)
        \/ /\ ParseUUID(req.user_id).ok /\ req.from # NULL /\ req.to # NULL
           /\ \E o \in Orders(UserRows(events, ParseUUID(req.user_id).v,
                                       req.from, req.to)),
                 db \in Outcomes :
                  HandlerGetUserActivity(req, o, db)

\* The user-activity query alone, over any Event Store.
NextUserActivity == GetUserActivityStep

SpecUserActivity == InitUserActivity /\ [][NextUserActivity]_vars

\* TrackEvent requests of the life cycle: events e1 and e2 of two users.
LifecycleEvents ==
    [ event_id : {"e1", "e2"},
      event_type : {"EVENT_TYPE_PAGE_VIEW"},
      user_id : {"u1", "u2"},
      session_id : {"s1"},
      product_id : {""},
      timestamp : {9} ]

LifecycleTrackEventStep ==
    /\ nCalls < MaxCalls
    /\ \E req \in LifecycleEvents, db \in Outcomes, pub \in Outcomes :
        HandlerTrackEvent(req, db, pub)

\* MarkAsProcessed of e1, of e2 or of e3, which is never stored.
MarkAsProcessedStep ==
    \E id \in {UuidTable["e1"], UuidTable["e2"], UuidTable["e3"]}, db \in Outcomes :
        CallMarkAsProcessed(id, db)

\* The life cycle of stored events: creation, stamping, and the clock.
NextLifecycle ==
    \/ LifecycleTrackEventStep
    \/ MarkAsProcessedStep
    \/ Tick

SpecLifecycle == Init /\ [][NextLifecycle]_vars

\* The life of one aggregation process.
NextProcess ==
    \/ \E out \in Outcomes : NewConsumer(out)
    \/ GoStart
    \/ WaitReady
    \/ ConsumeFails
    \/ \E assigned \in SUBSET Partitions : ConsumeJoins(assigned)
    \/ ConsumeCancelled
    \/ SessionEnds
    \/ \E p \in Partitions : ClaimHandlerStarts(p)
    \/ \E p \in Partitions : ClaimHandlerReturns(p)
    \/ \E p \in Partitions : ClaimReturns(p)
    \/ MainReady
    \/ Notify
    \/ Signal
    \/ Quit
    \/ GraceTick
    \/ MainReturns

SpecProcess == Init /\ [][NextProcess]_vars

\* The life of one aggregation process when the Go scheduler runs every
\* goroutine that can take a step: main goes on whenever its next statement
\* does not block (lines 52-94), and the goroutine of Start calls Consume
\* again after a return (lines 146-161).  What the broker and the operator
\* do (a join, a failure, a rebalance, a message, a signal) is left free.
SpecProcessFair ==
    /\ Init
    /\ [][NextProcess]_vars
    /\ WF_vars(\E out \in Outcomes : NewConsumer(out))
    /\ WF_vars(GoStart)
    /\ WF_vars(WaitReady)
    /\ WF_vars(MainReady)
    /\ WF_vars(Notify)
    /\ WF_vars(Quit)

\* Batches of events of two types sent by u1, by u2 or by the nil user.
KeyedProtoEvents ==
    [ event_id : {""},
      event_type : {"EVENT_TYPE_PAGE_VIEW", "EVENT_TYPE_PURCHASE"},
      user_id : {"u1", "u2", "nil"},
      session_id : {"s1"},
      product_id : {""},
      timestamp : {0} ]

KeyedBatches == UNION { [1 .. n -> KeyedProtoEvents] : n \in 0 .. MaxBatch }

KeyedBatchStep ==
    /\ nCalls < MaxCalls
    /\ \E reqs \in KeyedBatches, db \in Outcomes :
       \E c \in {ConvertAll(reqs, 1, nFresh)} :
       \E rows \in [DOMAIN c.events -> Outcomes],
          order \in Orders(BatchKeys(c.events)),
          pubs \in [BatchKeys(c.events) -> Outcomes] :
           HandlerTrackEventBatch(reqs, c, db, rows, order, pubs)

\* TrackEventBatch alone, on batches with several events of one user.
NextBatch == KeyedBatchStep

SpecBatch == Init /\ [][NextBatch]_vars

(***************************************************************************)
(* Vocabulary of the properties.                                           *)
(***************************************************************************)
KnownProtoTypes ==
    { "EVENT_TYPE_PAGE_VIEW", "EVENT_TYPE_PRODUCT_VIEW", "EVENT_TYPE_ADD_TO_CART",
      "EVENT_TYPE_REMOVE_FROM_CART", "EVENT_TYPE_PURCHASE", "EVENT_TYPE_SEARCH" }

ValidNonNil(s) == ParseUUID(s).ok /\ ParseUUID(s).v # NilUUID

\* The input rules of TrackEvent, on the request as the client sent it.
InputValid(p) ==
    /\ p.event_type \in KnownProtoTypes
    /\ ValidNonNil(p.user_id)
    /\ ValidNonNil(p.session_id)
    /\ p.product_id = "" \/ ParseUUID(p.product_id).ok

\* The step just taken served an RPC of kind op.
Served(op) == nCalls' = nCalls + 1 /\ resp'.op = op

SameFields(a, b) ==
    /\ a.event_type = b.event_type
    /\ a.user_id = b.user_id
    /\ a.session_id = b.session_id
    /\ a.product_id = b.product_id

NumInvalid(reqs) == Cardinality({i \in DOMAIN reqs : ~InputValid(reqs[i])})

(***************************************************************************)
(* C2: idempotent persistence.  In every reachable state the Event Store   *)
(* holds at most one row per event id, and a TrackEvent call for a valid   *)
(* event whose id is already stored (the INSERT itself not failing)        *)
(* returns success and leaves the rows of the store as they were.          *)
(***************************************************************************)
OneRowPerID == \A r1 \in events, r2 \in events : r1.id = r2.id => r1 = r2

DuplicateIsSuccess ==
    (/\ Served("TrackEvent")
     /\ resp'.converted # << >>
     /\ Validate(resp'.converted[1]) = "nil"
     /\ HasID(events, resp'.converted[1].id)
     /\ resp'.persist # "error")
        => /\ resp'.code = "OK"
           /\ resp'.persist = "duplicate"
           /\ events' = events

C2_IdempotentPersistence == []OneRowPerID /\ [][DuplicateIsSuccess]_vars

\* A second TrackEvent with a stored id but other field values has succeeded.
C2_Witness ==
    /\ resp.op = "TrackEvent" /\ resp.code = "OK" /\ resp.persist = "duplicate"
    /\ \E r \in events : r.id = resp.converted[1].id /\ r # resp.converted[1]

(***************************************************************************)
(* C3: best-effort publication.  When TrackEvent has inserted the event    *)
(* and the publication failed, the call returns success with the event's   *)
(* id and the row is in the Event Store.                                   *)
(***************************************************************************)
PublishFailed ==
    /\ resp.op = "TrackEvent"
    /\ resp.persist = "inserted"
    /\ Len(resp.sent) = 1 /\ ~resp.sent[1].ok

C3_BestEffortPublication ==
    PublishFailed =>
        /\ resp.code = "OK"
        /\ resp.event_id = UuidString(resp.converted[1].id)
        /\ resp.converted[1] \in events

C3_Witness == PublishFailed /\ LogSize(log) = 0 /\ resp.code = "OK"

(***************************************************************************)
(* C4: TrackEvent validation.  A TrackEvent request that violates an input *)
(* rule (event type not one of the six known, user_id or session_id not a  *)
(* valid non-nil identifier, product_id supplied and unparsable) fails     *)
(* with InvalidArgument and leaves the Event Store and the log unchanged.  *)
(***************************************************************************)
C4_InvalidInputRejected ==
    [][ (Served("TrackEvent") /\ ~InputValid(resp'.req[1]))
            => /\ resp'.code = "InvalidArgument"
               /\ events' = events
               /\ log' = log ]_vars

(***************************************************************************)
(* C5: round trip.  As claimed: after TrackEvent(e) returns success for a  *)
(* valid e, GetByID(e.id) returns a record with e's event_type, user_id,   *)
(* session_id and product_id, whatever the store held before.              *)
(***************************************************************************)
TrackedOK ==
    /\ resp.op = "TrackEvent" /\ resp.code = "OK"
    /\ InputValid(resp.req[1])

C5_RoundTrip_AnyPriorState ==
    TrackedOK =>
        LET g == GetByID(events, ParseUUID(resp.event_id).v)
        IN  g.err = "nil" /\ SameFields(g.event, resp.converted[1])

(***************************************************************************)
(* C5, amended: after TrackEvent(e) returns success, GetByID(e.id) returns *)
(* a record; its four fields are those of e when the call inserted the     *)
(* row, and when the id was already stored the record is the row stored    *)
(* before the call, unchanged.                                             *)
(***************************************************************************)
RoundTripAfterInsert ==
    (resp.op = "TrackEvent" /\ resp.code = "OK") =>
        LET g == GetByID(events, ParseUUID(resp.event_id).v)
        IN  /\ g.err = "nil"
            /\ resp.persist = "inserted" => SameFields(g.event, resp.converted[1])

DuplicateKeepsStoredRow ==
    (Served("TrackEvent") /\ resp'.code = "OK" /\ resp'.persist = "duplicate")
        => LET id == ParseUUID(resp'.event_id).v
           IN  GetByID(events', id) = GetByID(events, id) /\ HasID(events, id)

C5_RoundTrip == []RoundTripAfterInsert /\ [][DuplicateKeepsStoredRow]_vars

\* Both cases: an insert under a non-canonical spelling of the id, with a
\* product, and a successful call that found another row under its id.
C5_Witness ==
    /\ TrackedOK /\ resp.persist = "duplicate"
    /\ ~SameFields(GetByID(events, ParseUUID(resp.event_id).v).event,
                   resp.converted[1])

C5_WitnessInsert ==
    /\ TrackedOK /\ resp.persist = "inserted"
    /\ resp.req[1].event_id # resp.event_id
    /\ resp.converted[1].product_id # NULL

(***************************************************************************)
(* C6: persist-then-publish.  As claimed: every TrackEvent call on valid   *)
(* input that returns success has the event's id in the store and has      *)
(* attempted to publish the event, keyed by its user_id.                   *)
(***************************************************************************)
PublishedUnderUserID ==
    /\ Len(resp.sent) = 1
    /\ resp.sent[1].key = UuidString(resp.converted[1].user_id)
    /\ resp.sent[1].value = EventValue(resp.converted[1])

C6_AlwaysPublishes ==
    TrackedOK => HasID(events, resp.converted[1].id) /\ PublishedUnderUserID

(***************************************************************************)
(* C6, amended: every TrackEvent call that returns success has the event's *)
(* id in the store; when the call inserted the row it then attempted       *)
(* exactly one publication, of that event keyed by its user_id; when the   *)
(* id was already stored it attempted none.                                *)
(***************************************************************************)
C6_PersistThenPublish ==
    (resp.op = "TrackEvent" /\ resp.code = "OK") =>
        /\ HasID(events, resp.converted[1].id)
        /\ resp.persist \in {"inserted", "duplicate"}
        /\ resp.persist = "inserted" =>
              resp.converted[1] \in events /\ PublishedUnderUserID
        /\ resp.persist = "duplicate" => resp.sent = << >>

C6_Witness ==
    /\ TrackedOK /\ resp.persist = "inserted" /\ PublishedUnderUserID
    /\ resp.sent[1].ok /\ LogSize(log) = 2

(***************************************************************************)
(* C8: TrackEventBatch with an empty list fails with InvalidArgument and   *)
(* adds no row to the Event Store and no message to the log.               *)
(***************************************************************************)
C8_EmptyBatchRejected ==
    [][ (Served("TrackEventBatch") /\ resp'.req = << >>)
            => /\ resp'.code = "InvalidArgument"
               /\ events' = events
               /\ log' = log
               /\ resp'.sent = << >> ]_vars

C8_Witness ==
    /\ resp.op = "TrackEventBatch" /\ resp.req = << >>
    /\ resp.code = "InvalidArgument"
    /\ events # {} /\ LogSize(log) > 0

(***************************************************************************)
(* C9: partial batches never hard-fail.  For every non-empty batch whose   *)
(* transaction did not fail, the call returns a processed/failed split     *)
(* (no error) and no event that failed validation is stored, however many  *)
(* events of the batch are invalid.                                        *)
(***************************************************************************)
C9_PartialBatchNeverFails ==
    (/\ resp.op = "TrackEventBatch"
     /\ Len(resp.req) > 0
     /\ resp.persist # "error")
        => /\ resp.code = "OK"
           /\ \A r \in events : Validate(r) = "nil"

(***************************************************************************)
(* C10: batch accounting bound.  A successful TrackEventBatch of N events  *)
(* of which K are invalid returns processed_count <= N - K, and every      *)
(* failed id is the id of an event of the batch that was invalid or whose  *)
(* publication failed.                                                     *)
(***************************************************************************)
FailedIdJustified(id) ==
    \E i \in DOMAIN resp.converted :
        /\ UuidString(resp.converted[i].id) = id
        /\ \/ Validate(resp.converted[i]) # "nil"
           \/ \E j \in DOMAIN resp.sent :
                 /\ ~resp.sent[j].ok
                 /\ resp.sent[j].key = UuidString(resp.converted[i].user_id)

C10_BatchAccountingBound ==
    (resp.op = "TrackEventBatch" /\ resp.code = "OK") =>
        /\ resp.processed_count <= Len(resp.req) - NumInvalid(resp.req)
        /\ \A k \in DOMAIN resp.failed_ids : FailedIdJustified(resp.failed_ids[k])

(***************************************************************************)
(* C1: accumulation law.  For every (date, hour, event_type) key, after M  *)
(* successful UpsertSummary calls each carrying total_events = 1, issued   *)
(* in any interleaving by the partition workers of any consumer process,   *)
(* the Summary Store holds exactly one row for the key and its             *)
(* total_events is M; it holds no row for a key never upserted.            *)
(***************************************************************************)
RECURSIVE SumOver(_, _)
SumOver(f, S) ==
    IF S = {} THEN 0
    ELSE LET q == CHOOSE x \in S : TRUE IN f[q] + SumOver(f, S \ {q})

SuccessfulUpserts(k) == SumOver(upserts[k], Procs)

C1_AccumulationLaw ==
    /\ \A k \in DOMAIN upserts :
           /\ Cardinality({r \in summaries : SummaryKey(r) = k}) = 1
           /\ \A r \in summaries :
                  SummaryKey(r) = k => r.total_events = SuccessfulUpserts(k)
    /\ \A r \in summaries : SummaryKey(r) \in DOMAIN upserts

\* Two consumer processes have both upserted one key, three times in all.
C1_Witness ==
    \E k \in DOMAIN upserts :
        /\ \A q \in Procs : upserts[k][q] >= 1
        /\ SuccessfulUpserts(k) = 3
        /\ \E r \in summaries : SummaryKey(r) = k /\ r.total_events = 3

(***************************************************************************)
(* C7: partition affinity.  Every message published for an event carries   *)
(* the event's user_id as its key, all messages with the same key are in   *)
(* the same partition, and a consumer is handed a message of a partition   *)
(* only after every message published before it in that partition, so      *)
(* that messages sharing a key are delivered in publish order.             *)
(***************************************************************************)
KeyIsUserID ==
    \A p \in Partitions : \A i \in DOMAIN log[p] :
        log[p][i].value.kind = "event" =>
            log[p][i].key = UuidString(log[p][i].value.event.user_id)

SameKeySamePartition ==
    \A p \in Partitions, q \in Partitions :
        \A i \in DOMAIN log[p], j \in DOMAIN log[q] :
            log[p][i].key = log[q][j].key => p = q

PublishedBefore(p, s) == {log[p][i].seq : i \in {x \in DOMAIN log[p] : log[p][x].seq < s}}

DeliveredInPublishOrder ==
    \A p \in Partitions : \A n \in DOMAIN delivered[p] :
        /\ \E i \in DOMAIN log[p] : log[p][i].seq = delivered[p][n]
        /\ \A s \in PublishedBefore(p, delivered[p][n]) :
               \E n2 \in 1 .. (n - 1) : delivered[p][n2] = s

C7_PartitionAffinity ==
    KeyIsUserID /\ SameKeySamePartition /\ DeliveredInPublishOrder

\* Two messages of one user are in one partition and both were delivered.
C7_Witness ==
    \E p \in Partitions : \E i \in DOMAIN log[p], j \in DOMAIN log[p] :
        /\ i < j
        /\ log[p][i].key = log[p][j].key
        /\ \E n \in DOMAIN delivered[p], n2 \in DOMAIN delivered[p] :
               /\ n < n2
               /\ delivered[p][n] = log[p][i].seq
               /\ delivered[p][n2] = log[p][j].seq

(***************************************************************************)
(* C11: batch failure reporting.  In a TrackEventBatch call that returns   *)
(* success, every event whose row insert failed or whose publication       *)
(* failed has its identifier in failed_ids, and processed_count is the     *)
(* number of events minus the number of failed ids.                        *)
(***************************************************************************)
BatchOK == resp.op = "TrackEventBatch" /\ resp.code = "OK"

PublicationFailed(e) ==
    \E j \in DOMAIN resp.sent :
        ~resp.sent[j].ok /\ resp.sent[j].key = UuidString(e.user_id)

InFailedIds(e) ==
    \E k \in DOMAIN resp.failed_ids : resp.failed_ids[k] = UuidString(e.id)

C11_BatchFailureReporting ==
    BatchOK =>
        /\ resp.processed_count = Len(resp.converted) - Len(resp.failed_ids)
        /\ \A i \in DOMAIN resp.converted :
               (\/ (Validate(resp.converted[i]) = "nil" /\ resp.rows[i] = "fail")
                \/ PublicationFailed(resp.converted[i]))
                   => InFailedIds(resp.converted[i])

(***************************************************************************)
(* C12: CreateBatch is all-or-nothing.  A TrackEventBatch call with at     *)
(* least one converted event either commits, and then the store gains      *)
(* exactly the valid events of the batch whose insert did not fail and     *)
(* whose id was not stored before (the first of several events with one    *)
(* id), or its transaction fails, and then the store and the log are       *)
(* unchanged, the call returns an error and nothing was published.         *)
(***************************************************************************)
Insertable(evs, rows, i) == Validate(evs[i]) = "nil" /\ rows[i] = "ok"

ExpectedRows(store, evs, rows) ==
    { evs[i] : i \in { k \in DOMAIN evs :
                         /\ Insertable(evs, rows, k)
                         /\ ~HasID(store, evs[k].id)
                         /\ \A j \in 1 .. (k - 1) :
                                Insertable(evs, rows, j) => evs[j].id # evs[k].id } }

C12_BatchAllOrNothing ==
    [][ (Served("TrackEventBatch") /\ resp'.converted # << >>)
            => \/ /\ resp'.persist = "committed"
                  /\ events' = events \cup
                         ExpectedRows(events, resp'.converted, resp'.rows)
               \/ /\ resp'.persist = "error"
                  /\ events' = events
                  /\ log' = log
                  /\ resp'.code = "Internal"
                  /\ resp'.sent = << >> ]_vars

\* A committed batch of two events: the insert of one failed, the other is a
\* new row of the store.
C12_Witness ==
    /\ BatchOK /\ resp.persist = "committed" /\ Len(resp.converted) = 2
    /\ \E i \in DOMAIN resp.converted, j \in DOMAIN resp.converted :
           /\ Validate(resp.converted[i]) = "nil" /\ resp.rows[i] = "fail"
           /\ ~HasID(events, resp.converted[i].id)
           /\ resp.rows[j] = "ok" /\ resp.converted[j] \in events

(***************************************************************************)
(* C13: per-message aggregation step.  Whenever the handler has issued the *)
(* Summary upsert for a decoded message, the event's user_id is in the     *)
(* working set of the event's key, and the upsert carries that key,        *)
(* total_events = 1 and unique_users equal to the cardinality of that      *)
(* working set.                                                            *)
(***************************************************************************)
C13_AggregationStep ==
    last.issued =>
        /\ last.data.user_id \in last.users
        /\ SummaryKey(last.summary) = CacheKey(last.data)
        /\ last.summary.total_events = 1
        /\ last.summary.unique_users = Cardinality(last.users)

(***************************************************************************)
(* C14: aggregation key.  For every decoded event, whatever the zone of    *)
(* its created_at, the working-set key and the key of the upserted summary *)
(* are (UTC day of created_at, UTC hour of created_at, event_type).        *)
(***************************************************************************)
UTCKey(data) ==
    << data.created_at.t \div HoursPerDay, data.created_at.t % HoursPerDay,
       data.event_type >>

C14_AggregationKeyIsUTC ==
    last.issued =>
        /\ CacheKey(last.data) = UTCKey(last.data)
        /\ SummaryKey(last.summary) = UTCKey(last.data)
        /\ last.summary.hour \in 0 .. 23

(***************************************************************************)
(* C15: last writer wins.  After every successful upsert for a key, the    *)
(* stored unique_users, metadata and updated_at of the key's row are the   *)
(* values that upsert carried, whatever was stored before.                 *)
(***************************************************************************)
C15_LastWriterWins ==
    [][ (last' # last /\ last'.issued /\ last'.err = "nil")
            => \E r \in summaries' :
                   /\ SummaryKey(r) = SummaryKey(last'.summary)
                   /\ r.unique_users = last'.summary.unique_users
                   /\ r.metadata = last'.summary.metadata
                   /\ r.updated_at = last'.summary.updated_at ]_vars

\* A row whose unique_users went down and whose updated_at went up: a second
\* process, which knows one user of the key, wrote it after a process that
\* knew two, at a later time.
C15_Witness ==
    /\ last.issued /\ last.err = "nil" /\ last.summary.unique_users = 1
    /\ last.summary.updated_at > StartHour
    /\ \E r \in summaries :
           /\ SummaryKey(r) = SummaryKey(last.summary)
           /\ r.total_events = 3 /\ r.unique_users = 1
           /\ r.updated_at = last.summary.updated_at
    /\ \E c \in Procs :
           /\ CacheKey(last.data) \in DOMAIN uniqueUsers[c]
           /\ Cardinality(uniqueUsers[c][CacheKey(last.data)]) = 2

(***************************************************************************)
(* C16: offset acknowledgment.  On every claimed partition the offset of a *)
(* message is marked in the step in which the handler returns for that     *)
(* message and not before, and it is marked whether the handler succeeded  *)
(* or failed; the worker is then ready for the following message.          *)
(***************************************************************************)
HandlerReturned(p) == pos'[p] = pos[p] + 1

C16_OffsetAcknowledgment ==
    [][ \A p \in Partitions :
          /\ marked'[p] > marked[p] =>
                 HandlerReturned(p) /\ marked'[p] = pos[p] + 1
          /\ HandlerReturned(p) =>
                 marked'[p] = pos[p] + 1 /\ pc'[p] = "idle" ]_vars

\* A partition of two event messages, both marked: the upsert of the first
\* failed, the second was then processed.
C16_Witness ==
    \E p \in Partitions :
        /\ Len(log[p]) = 2 /\ marked[p] = 2 /\ delivered[p] = <<1, 2>>
        /\ log[p][1].value.kind = "event"
        /\ last.part = p /\ last.seq = 2 /\ last.err = "nil"
        /\ \A r \in summaries : r.total_events = 1
        /\ Cardinality(summaries) = 1

(***************************************************************************)
(* C17: swallowed per-message failures.  When the handler returns an error *)
(* for a message (it failed to decode, or its upsert failed), the Summary  *)
(* Store and the count of successful upserts are as before, the message is *)
(* not handled again by the loop, and the worker goes on to the following  *)
(* message.                                                                *)
(***************************************************************************)
HandlerFailed(p) ==
    /\ HandlerReturned(p)
    /\ last'.part = p /\ last'.seq = Current(p).seq /\ last'.err # "nil"

C17_SwallowedFailures ==
    [][ \A p \in Partitions :
          HandlerFailed(p) =>
              /\ summaries' = summaries
              /\ upserts' = upserts
              /\ pc'[p] = "idle"
              /\ pos'[p] = pos[p] + 1 ]_vars

\* A partition whose first message did not decode and whose second message
\* was then aggregated.
C17_Witness ==
    \E p \in Partitions :
        /\ Len(log[p]) = 2 /\ pos[p] = 2 /\ delivered[p] = <<1, 2>>
        /\ log[p][1].value.kind = "string"
        /\ last.part = p /\ last.seq = 2 /\ last.err = "nil" /\ last.issued
        /\ \A r \in summaries : r.total_events = 1
        /\ Cardinality(summaries) = 1

(***************************************************************************)
(* C18: working-set mutual exclusion.  In no reachable state are two       *)
(* goroutines of one process (partition workers inserting a user or        *)
(* creating a key, the eviction sweep) inside a mutation of the working    *)
(* set at once.                                                            *)
(***************************************************************************)
C18_WorkingSetMutualExclusion == \A c \in Procs : NumMutating(c) <= 1

(***************************************************************************)
(* C19: a rebalance preserves the aggregation state.  A new group session  *)
(* leaves the working set of every process as it was, and (eviction aside) *)
(* a working set loses a key only when its process dies.                   *)
(***************************************************************************)
ProcessDied(c) ==
    /\ NumMutating(c) >= 2
    /\ \A p \in Partitions : owner'[p] # c

C19_RebalanceKeepsWorkingSet ==
    [][ /\ nRebalances' # nRebalances => uniqueUsers' = uniqueUsers
        /\ \A c \in Procs :
               (DOMAIN uniqueUsers[c] \ DOMAIN uniqueUsers'[c] # {})
                   => ProcessDied(c) ]_vars

\* Right after the second group session began: what the first session
\* delivered is still in a working set.
C19_Witness ==
    /\ nRebalances = 2
    /\ \A p \in Partitions : pos[p] = committed[p] /\ committed[p] = 0
    /\ \E p \in Partitions : delivered[p] # << >>
    /\ \E c \in Procs : DOMAIN uniqueUsers[c] # {}

(***************************************************************************)
(* C20: eviction threshold.  As claimed: an eviction sweep that runs when  *)
(* the current time is more than 24 hours past the date of a working-set   *)
(* key removes that key.                                                   *)
(***************************************************************************)
SweepEnded(c) == sweep[c].on /\ ~sweep'[c].on /\ pc' = pc

SweepBegan(c) == ~sweep[c].on /\ sweep'[c].on

C20_EvictedAfter24h ==
    [][ \A c \in Procs :
          SweepEnded(c) =>
              \A k \in DOMAIN uniqueUsers[c] :
                  sweep[c].started > k[1] * HoursPerDay + HoursPerDay
                      => k \notin DOMAIN uniqueUsers'[c] ]_vars

(***************************************************************************)
(* C20, amended: an eviction sweep removes exactly the working-set keys    *)
(* whose date is earlier than the calendar day, in the zone of the         *)
(* process, of the time the sweep started minus 24 hours, and leaves the   *)
(* other keys and their users as they were.                                *)
(***************************************************************************)
C20_EvictionThreshold ==
    [][ \A c \in Procs :
          /\ SweepBegan(c) =>
                 /\ sweep'[c].started = now
                 /\ \E zone \in Zones :
                        sweep'[c].cutoff = (now - HoursPerDay + zone) \div HoursPerDay
          /\ SweepEnded(c) =>
                 /\ DOMAIN uniqueUsers'[c] =
                        {k \in DOMAIN uniqueUsers[c] : k[1] >= sweep[c].cutoff}
                 /\ \A k \in DOMAIN uniqueUsers'[c] :
                        uniqueUsers'[c][k] = uniqueUsers[c][k] ]_vars

\* A sweep has removed the key of an upserted day-0 event from the working
\* set of a process and kept a key of the day after.
C20_Witness ==
    \E c \in Procs :
        /\ \E k \in DOMAIN upserts :
               k[1] = 0 /\ upserts[k][c] > 0 /\ k \notin DOMAIN uniqueUsers[c]
        /\ \E k \in DOMAIN uniqueUsers[c] : k[1] = 1

(***************************************************************************)
(* C21: reset after eviction.  After a key has been evicted from the       *)
(* working set of a process, the upsert issued for the first message of    *)
(* that key the process receives afterwards carries unique_users = 1; when *)
(* it succeeds, the stored unique_users of the key becomes 1 and the       *)
(* stored total_events is one more than before.                            *)
(***************************************************************************)
UpsertReturned(p) == pc[p] = "upsert" /\ HandlerReturned(p)

C21_ResetAfterEviction ==
    [][ \A p \in Partitions :
          (firstAfter[p] /\ UpsertReturned(p)) =>
              /\ last'.summary.unique_users = 1
              /\ last'.err = "nil" =>
                     \A r \in summaries :
                         SummaryKey(r) = SummaryKey(last'.summary) =>
                             \E r2 \in summaries' :
                                 /\ SummaryKey(r2) = SummaryKey(r)
                                 /\ r2.total_events = r.total_events + 1
                                 /\ r2.unique_users = 1 ]_vars

(***************************************************************************)
(* C22: distinct-count exactness and undercount.  (a) When no worker is in *)
(* a handler and every delivery of a key's messages ended in a successful  *)
(* upsert by one and the same process (so no other process, no restart and *)
(* no handler failure), the stored unique_users of the key is the number   *)
(* of distinct user_ids among the messages of the key that were handled.   *)
(* (b) Whoever handled what, the stored unique_users is never greater than *)
(* that number, and (c) every successful upsert leaves it equal to the     *)
(* distinct count in the working set of the process that issued it.        *)
(***************************************************************************)
Message(p, s) == CHOOSE m \in {log[p][i] : i \in DOMAIN log[p]} : m.seq = s

HandedKey(p, n) ==
    LET d == Unmarshal(Message(p, delivered[p][n]).value)
    IN  IF d.err = "nil" THEN CacheKey(d.data) ELSE << >>

DeliveriesOf(k) ==
    { pn \in UNION { {<<p, n>> : n \in DOMAIN delivered[p]} : p \in Partitions } :
        HandedKey(pn[1], pn[2]) = k }

HandledUsers(k) ==
    { Unmarshal(Message(pn[1], delivered[pn[1]][pn[2]]).value).data.user_id :
        pn \in DeliveriesOf(k) }

Quiescent == \A p \in Partitions : pc[p] = "idle"

ExactWhenAlone ==
    Quiescent =>
        \A r \in summaries :
            (\E c \in Procs :
                 upserts[SummaryKey(r)][c] = Cardinality(DeliveriesOf(SummaryKey(r))))
                => r.unique_users = Cardinality(HandledUsers(SummaryKey(r)))

NeverOvercounts ==
    \A r \in summaries :
        r.unique_users <= Cardinality(HandledUsers(SummaryKey(r)))

LastUpserterDecides ==
    \A p \in Partitions :
        (UpsertReturned(p) /\ last'.err = "nil") =>
            \E r \in summaries' :
                /\ SummaryKey(r) = SummaryKey(last'.summary)
                /\ r.unique_users =
                       CountUsers(uniqueUsers[owner[p]], SummaryKey(r))

StoredTotal(table, k) ==
    IF HasKey(table, k)
    THEN (CHOOSE r \in table : SummaryKey(r) = k).total_events
    ELSE 0

C30_TotalEventsMonotone ==
    [][ /\ \A r \in summaries :
               StoredTotal(summaries', SummaryKey(r)) >= r.total_events
        /\ \A p \in Partitions :
               (UpsertReturned(p) /\ last'.err = "nil") =>
                   StoredTotal(summaries', SummaryKey(last'.summary)) =
                       StoredTotal(summaries, SummaryKey(last'.summary)) + 1 ]_vars

\* A key with two messages in the topic and a stored total_events of 3: a
\* message was handled again in a second group session.
C30_Witness ==
    /\ nRebalances = 2
    /\ \E r \in summaries :
           /\ r.total_events = 3
           /\ Cardinality({Message(pn[1], delivered[pn[1]][pn[2]]).seq :
                              pn \in DeliveriesOf(SummaryKey(r))}) = 2

(***************************************************************************)
(* C23: day regrouping.  A successful GetEventStats with granularity "day" *)
(* returns, for every (day, event_type) that has stored hourly summaries   *)
(* in the requested range, a row stamped with the day whose total_events   *)
(* is the sum of their total_events and whose unique_users is the maximum  *)
(* of their unique_users.                                                  *)
(***************************************************************************)
StatsOK == qresp.op = "GetEventStats" /\ qresp.code = "OK"

\* The stored summaries a request ranges over.
InRange(r, req) ==
    /\ r.date >= req.from \div HoursPerDay
    /\ r.date <= req.to \div HoursPerDay
    /\ (req.event_type = "" \/ r.event_type = req.event_type)

HourlyRows(d, ty) ==
    {r \in summaries : InRange(r, qresp.req) /\ r.date = d /\ r.event_type = ty}

RECURSIVE SumTotalEvents(_)
SumTotalEvents(S) ==
    IF S = {} THEN 0
    ELSE LET r == CHOOSE x \in S : TRUE
         IN  r.total_events + SumTotalEvents(S \ {r})

MaxUniqueUsers(S) ==
    CHOOSE m \in {r.unique_users : r \in S} : \A r \in S : r.unique_users <= m

StatsFor(ts, ty) ==
    { i \in DOMAIN qresp.stats :
        qresp.stats[i].timestamp = ts /\ qresp.stats[i].event_type = ty }

C23_DayRegrouping ==
    (StatsOK /\ qresp.req.granularity = "day") =>
        \A r \in summaries :
            InRange(r, qresp.req) =>
                /\ StatsFor(Time(r.date * HoursPerDay, UTC), r.event_type) # {}
                /\ \A i \in StatsFor(Time(r.date * HoursPerDay, UTC), r.event_type) :
                       /\ qresp.stats[i].total_events =
                              SumTotalEvents(HourlyRows(r.date, r.event_type))
                       /\ qresp.stats[i].unique_users =
                              MaxUniqueUsers(HourlyRows(r.date, r.event_type))

\* A day row that merges two hourly rows, of 2 and 1 users: 3 events, 2 users.
C23_Witness ==
    /\ StatsOK /\ qresp.req.granularity = "day"
    /\ \E i \in DOMAIN qresp.stats :
           /\ qresp.stats[i].total_events = 3
           /\ qresp.stats[i].unique_users = 2
           /\ \E r1 \in summaries, r2 \in summaries :
                  /\ r1.date = r2.date /\ r1.event_type = r2.event_type
                  /\ r1.event_type = qresp.stats[i].event_type
                  /\ Time(r1.date * HoursPerDay, UTC) = qresp.stats[i].timestamp
                  /\ r1.hour # r2.hour
                  /\ r1.unique_users = 2 /\ r2.unique_users = 1
                  /\ r1.total_events = 1 /\ r2.total_events = 2

(***************************************************************************)
(* C24: regrouping key.  A successful GetEventStats with granularity       *)
(* "hour" or "day" returns exactly one row per distinct (bucket,           *)
(* event_type) among the stored summaries in range, the bucket of a        *)
(* summary being its date plus its hour for "hour" and its date for "day"; *)
(* no two returned rows have the same (timestamp, event_type), and the     *)
(* total_events of the returned rows add up to those of the summaries.     *)
(***************************************************************************)
BucketOf(r, granularity) ==
    IF granularity = "hour"
    THEN Time(r.date * HoursPerDay + r.hour, UTC)
    ELSE Time(r.date * HoursPerDay, UTC)

RowsInRange == {r \in summaries : InRange(r, qresp.req)}

BucketsInRange ==
    {<<BucketOf(r, qresp.req.granularity), r.event_type>> : r \in RowsInRange}

RECURSIVE SumStats(_, _)
SumStats(stats, i) ==
    IF i > Len(stats) THEN 0 ELSE stats[i].total_events + SumStats(stats, i + 1)

C24_RegroupingKey ==
    (StatsOK /\ qresp.req.granularity \in {"hour", "day"}) =>
        /\ {<<qresp.stats[i].timestamp, qresp.stats[i].event_type>> :
               i \in DOMAIN qresp.stats} = BucketsInRange
        /\ Len(qresp.stats) = Cardinality(BucketsInRange)
        /\ qresp.total_count = Cardinality(BucketsInRange)
        /\ SumStats(qresp.stats, 1) = SumTotalEvents(RowsInRange)

\* Three summaries of one day, two of one event type and one of another,
\* regrouped by day into two rows.
C24_Witness ==
    /\ StatsOK /\ qresp.req.granularity = "day"
    /\ Cardinality(RowsInRange) = 3
    /\ Len(qresp.stats) = 2
    /\ \A r1 \in RowsInRange, r2 \in RowsInRange : r1.date = r2.date
    /\ \E i \in DOMAIN qresp.stats, j \in DOMAIN qresp.stats :
           qresp.stats[i].event_type # qresp.stats[j].event_type

(***************************************************************************)
(* C25: end-to-end scenario.  When the k stored events (one user, one      *)
(* event type, k distinct hours of UTC day 0) have each been published,    *)
(* delivered once and aggregated successfully by the one consumer holding  *)
(* their partition, the Summary Store holds exactly k rows of that day and *)
(* type, one per hour of an event, each with total_events = 1 and          *)
(* unique_users = 1; and a GetEventStats with day granularity over the day *)
(* served then returns exactly one row: the day, the type, total_events =  *)
(* k, unique_users = 1.                                                    *)
(***************************************************************************)
AllDeliveries ==
    UNION { {<<p, n>> : n \in DOMAIN delivered[p]} : p \in Partitions }

AllUpserts ==
    SumOver([k \in DOMAIN upserts |-> SuccessfulUpserts(k)], DOMAIN upserts)

ScenarioProcessed ==
    /\ Quiescent
    /\ events # {}
    /\ LogSize(log) = Cardinality(events)
    /\ Cardinality(AllDeliveries) = Cardinality(events)
    /\ AllUpserts = Cardinality(events)

ScenarioStore ==
    /\ Cardinality(summaries) = Cardinality(events)
    /\ \A e \in events : \E r \in summaries : r.hour = e.created_at % HoursPerDay
    /\ \A r \in summaries :
           /\ r.date = 0 /\ r.event_type = EventTypePageView
           /\ r.total_events = 1 /\ r.unique_users = 1

QueryServed == nCalls' = nCalls + 1 /\ resp' = resp

ScenarioStats ==
    (ScenarioProcessed /\ QueryServed /\ qresp'.code = "OK") =>
        /\ Len(qresp'.stats) = 1
        /\ qresp'.stats[1] =
               [ timestamp |-> Time(0, UTC), event_type |-> EventTypePageView,
                 total_events |-> Cardinality(events), unique_users |-> 1 ]

C25_EndToEndScenario ==
    [](ScenarioProcessed => ScenarioStore) /\ [][ScenarioStats]_vars

\* The scenario of the specification: three events at hours 9, 10 and 11,
\* three rows, and the day row with total_events = 3 and unique_users = 1.
C25_Witness ==
    /\ ScenarioProcessed
    /\ Cardinality(events) = 3
    /\ {r.hour : r \in summaries} = {9, 10, 11}
    /\ qresp.op = "GetEventStats" /\ qresp.code = "OK"
    /\ Len(qresp.stats) = 1
    /\ qresp.stats[1].total_events = 3 /\ qresp.stats[1].unique_users = 1

(***************************************************************************)
(* C26: top products.  A served GetTopProducts(from, to, limit) returns at *)
(* most limit entries, one per product with a stored event about it        *)
(* created in [from, to]; event_count is the number of those events,       *)
(* unique_users the number of their distinct users, conversion_rate is 0;  *)
(* the entries are in descending order of event_count and no product left  *)
(* out has more events than a returned one.  A request whose limit is not  *)
(* positive is served with limit 10.                                       *)
(***************************************************************************)
TopProductsOK == qresp.op = "GetTopProducts" /\ qresp.code = "OK"

\* The stored events about product p created within the range of req.
EventsAbout(p, req) ==
    { e \in events :
        e.product_id = p /\ e.created_at >= req.from /\ e.created_at <= req.to }

RangedProducts(req) ==
    { e.product_id : e \in {x \in events : x.product_id # NULL
                                          /\ EventsAbout(x.product_id, req) # {}} }

Returned(ps) == {ps[i].product_id : i \in DOMAIN ps}

TopProductsEntries(ps, req) ==
    /\ \A i \in DOMAIN ps :
        \E p \in RangedProducts(req) :
            /\ ps[i].product_id = UuidString(p)
            /\ ps[i].event_count = Cardinality(EventsAbout(p, req))
            /\ ps[i].unique_users =
                   Cardinality({e.user_id : e \in EventsAbout(p, req)})
            /\ ps[i].conversion_rate = 0
    /\ \A i \in DOMAIN ps, j \in DOMAIN ps :
        /\ i # j => ps[i].product_id # ps[j].product_id
        /\ i < j => ps[i].event_count >= ps[j].event_count
    /\ \A p \in RangedProducts(req) :
        UuidString(p) \notin Returned(ps) =>
            \A i \in DOMAIN ps :
                ps[i].event_count >= Cardinality(EventsAbout(p, req))

\* At most n entries, and every product of the range when they are fewer.
TruncatedTo(ps, req, n) ==
    /\ Len(ps) <= n
    /\ Len(ps) < n => \A p \in RangedProducts(req) : UuidString(p) \in Returned(ps)

\* The claim as stated: never more entries than the limit of the request.
C26_AtMostLimit ==
    TopProductsOK =>
        /\ TruncatedTo(qresp.products, qresp.req, qresp.req.limit)
        /\ TopProductsEntries(qresp.products, qresp.req)

C26_TopProducts ==
    TopProductsOK =>
        /\ TruncatedTo(qresp.products, qresp.req,
                       IF qresp.req.limit <= 0 THEN 10 ELSE qresp.req.limit)
        /\ TopProductsEntries(qresp.products, qresp.req)

\* A product with two events of two users was returned and a product with
\* one event was cut off by the limit.
C26_Witness ==
    /\ TopProductsOK
    /\ qresp.req.limit = 1
    /\ Len(qresp.products) = 1
    /\ qresp.products[1].event_count = 2
    /\ qresp.products[1].unique_users = 2
    /\ Cardinality(RangedProducts(qresp.req)) = 2

(***************************************************************************)
(* C27: processed_at is written once.  No step removes a stored event or   *)
(* changes a field of it other than processed_at; processed_at changes     *)
(* only from null, to the time of a MarkAsProcessed call that returned no  *)
(* error; a MarkAsProcessed of an event whose processed_at is set leaves   *)
(* the store as it is and, unless the statement itself failed, returns     *)
(* ErrEventAlreadyProcessed.                                               *)
(***************************************************************************)
Stamped(id) == \E e \in events : e.id = id /\ e.processed_at # NULL

\* The step just taken was a MarkAsProcessed(id) that returned code.
Marked(id, code) ==
    /\ qresp'.op = "MarkAsProcessed"
    /\ qresp'.req = [id |-> id]
    /\ qresp'.code = code
    /\ nCalls' = nCalls /\ now' = now

OnlyStamped ==
    \A e \in events :
        \E e2 \in events' :
            /\ e2.id = e.id
            /\ [e2 EXCEPT !.processed_at = NULL] = [e EXCEPT !.processed_at = NULL]
            /\ e.processed_at # NULL => e2.processed_at = e.processed_at
            /\ e2.processed_at # e.processed_at =>
                   Marked(e.id, "nil") /\ e2.processed_at = now

AlreadyProcessedSignalled ==
    \A id \in {e.id : e \in events} :
        (Stamped(id) /\ qresp' # qresp /\ qresp'.op = "MarkAsProcessed"
            /\ qresp'.req = [id |-> id])
        => /\ events' = events
           /\ qresp'.code \in {"ErrEventAlreadyProcessed",
                               "failed to mark event as processed"}

FirstCallStamps ==
    \A e \in events :
        (e.processed_at = NULL /\ Marked(e.id, "nil"))
        => \E e2 \in events' : e2.id = e.id /\ e2.processed_at = now

C27_ProcessedAtWriteOnce ==
    [][OnlyStamped /\ AlreadyProcessedSignalled /\ FirstCallStamps]_vars

\* An event stamped at the start hour is still stamped so one day later,
\* after a second MarkAsProcessed of it that signalled AlreadyProcessed.
C27_Witness ==
    /\ now = StartHour + HoursPerDay
    /\ qresp.op = "MarkAsProcessed"
    /\ qresp.code = "ErrEventAlreadyProcessed"
    /\ \E e \in events : qresp.req = [id |-> e.id] /\ e.processed_at = StartHour

(***************************************************************************)
(* C28: consumer shutdown.  Once the context is cancelled no partition     *)
(* claim is added; a process with a group that was sent a signal ends only *)
(* by returning from main with the group closed; the group is not closed   *)
(* while a handler is running unless the grace period has elapsed; and the *)
(* process ends at the moment the Start goroutine returns, or at the end   *)
(* of the grace period when the goroutine has not returned by then.        *)
(***************************************************************************)
NoNewClaims == cancelled => claims' \subseteq claims

EndsByReturning ==
    (signalled /\ ~Alive /\ group # "none") =>
        (exitBy = "returned" /\ group = "closed")

ClosedAfterHandlers ==
    (group = "closed" /\ running # {}) => elapsed = GraceTicks

EndsWithTheDrain ==
    exitBy = "returned" =>
        elapsed = (IF drainedAt # NULL THEN drainedAt ELSE GraceTicks)

C28_ConsumerShutdown ==
    /\ [](EndsByReturning /\ ClosedAfterHandlers /\ EndsWithTheDrain)
    /\ [][NoNewClaims]_vars

(***************************************************************************)
(* C29: fatal startup.  A process that could not create its consumer group *)
(* has ended with a fatal error, and so has a process whose calls of       *)
(* Consume have failed to join the group without one having joined it.     *)
(***************************************************************************)
NeverJoined == nFailed > 0 /\ nJoined = 0

C29_FatalStartup ==
    /\ (Alive /\ mainPc # "new") => group # "none"
    /\ NeverJoined => exitBy = "fatal"

(***************************************************************************)
(* C31: batch publication collapses by key.  A TrackEventBatch call whose  *)
(* batch committed attempted one message per distinct user_id of the       *)
(* batch, keyed by the user_id and carrying the event type of the last     *)
(* event of that user in batch order; and every valid event of the batch   *)
(* whose insert did not fail has a row in the Event Store.                 *)
(***************************************************************************)
BatchUsers(evs) == {evs[i].user_id : i \in DOMAIN evs}

LastOf(evs, u) ==
    CHOOSE i \in DOMAIN evs :
        evs[i].user_id = u /\ \A j \in DOMAIN evs : evs[j].user_id = u => j <= i

OneMessagePerUser(evs, sent) ==
    /\ Len(sent) = Cardinality(BatchUsers(evs))
    /\ \A u \in BatchUsers(evs) :
        \E k \in DOMAIN sent :
            /\ sent[k].key = UuidString(u)
            /\ sent[k].value = [kind |-> "string", event |-> NoEvent,
                                str |-> evs[LastOf(evs, u)].event_type]

C31_BatchKeyCollapsing ==
    [][ (Served("TrackEventBatch") /\ resp'.persist = "committed")
            => /\ OneMessagePerUser(resp'.converted, resp'.sent)
               /\ \A i \in DOMAIN resp'.converted :
                      Insertable(resp'.converted, resp'.rows, i)
                          => HasID(events', resp'.converted[i].id) ]_vars

\* Two events of one user, a page view and then a purchase, are both stored
\* and the one message published for them carries "purchase".
C31_Witness ==
    /\ BatchOK /\ resp.persist = "committed"
    /\ Len(resp.converted) = 2
    /\ resp.converted[1].user_id = resp.converted[2].user_id
    /\ resp.converted[1].event_type = EventTypePageView
    /\ resp.converted[2].event_type = EventTypePurchase
    /\ \A i \in 1 .. 2 : resp.converted[i] \in events
    /\ Len(resp.sent) = 1 /\ resp.sent[1].ok
    /\ \E p \in Partitions :
           /\ Len(log[p]) = 1
           /\ log[p][1].value = StringValue(EventTypePurchase)

(***************************************************************************)
(* C32: in-order, one-at-a-time processing per partition.  The handler of  *)
(* a claimed partition is started only when no handler of that partition   *)
(* is running and every message of the claim before it has been marked; it *)
(* is started on the message at the offset that follows the last one       *)
(* handled, and that offset moves only by one, when a handler returns, or  *)
(* when a new claim starts.                                                *)
(***************************************************************************)
HandlerStarted(p) == Len(delivered'[p]) = Len(delivered[p]) + 1

ClaimChanged(p) == nRebalances' # nRebalances \/ owner'[p] # owner[p]

C32_OneAtATimeInOrder ==
    [][ \A p \in Partitions :
          /\ HandlerStarted(p) =>
                 /\ pc[p] = "idle"
                 /\ marked[p] = pos[p]
                 /\ delivered'[p][Len(delivered'[p])] = log[p][pos[p] + 1].seq
          /\ pos'[p] # pos[p] => (HandlerReturned(p) \/ ClaimChanged(p))
          /\ HandlerReturned(p) => (pc[p] # "idle" \/ HandlerStarted(p)) ]_vars

\* In one session the two messages of a partition were handled one after
\* the other, in the order of their offsets, and both are marked.
C32_Witness ==
    /\ nRebalances = 1
    /\ \E p \in Partitions :
           /\ Len(log[p]) = 2
           /\ delivered[p] = << log[p][1].seq, log[p][2].seq >>
           /\ pos[p] = 2 /\ marked[p] = 2 /\ pc[p] = "idle"

(***************************************************************************)
(* C33: batch events reach the aggregates.  Whenever the handler returns   *)
(* for a message that TrackEventBatch published, the message was decoded   *)
(* without error and the upsert of its summary was issued; when the upsert *)
(* succeeded, a summary row of the event type the message carries exists.  *)
(***************************************************************************)
PublishedByBatch(m) == m.value.kind = "string"

C33_BatchEventsAggregated ==
    [][ \A p \in Partitions :
          (HandlerReturned(p) /\ PublishedByBatch(Current(p)))
              => /\ last'.part = p /\ last'.seq = Current(p).seq
                 /\ last'.issued
                 /\ last'.err = "nil" =>
                        \E r \in summaries' :
                            r.event_type = Current(p).value.str ]_vars

(***************************************************************************)
(* C34: in every reachable state every row of the Summary Store has        *)
(* 1 <= unique_users <= total_events.                                      *)
(***************************************************************************)
AtLeastOneUser == \A r \in summaries : 1 <= r.unique_users

UsersWithinEvents == \A r \in summaries : r.unique_users <= r.total_events

C34_UniqueUsersWithinTotal == AtLeastOneUser /\ UsersWithinEvents

(***************************************************************************)
(* C35: no publish without persistence.  A TrackEvent call that adds a     *)
(* message to the log has inserted the row of that event itself (the row   *)
(* was not stored before the call and is stored after it); a TrackEvent    *)
(* call whose persistence fails with a non-duplicate error returns         *)
(* Internal and publishes nothing; hence every event message on the log    *)
(* has its row in the Event Store.                                         *)
(***************************************************************************)
PublishesOnlyItsInsert ==
    (Served("TrackEvent") /\ log' # log) =>
        /\ resp'.persist = "inserted"
        /\ LogSize(log') = LogSize(log) + 1
        /\ ~HasID(events, resp'.converted[1].id)
        /\ resp'.converted[1] \in events'
        /\ \E p \in Partitions :
              log'[p] = Append(log[p], [key |-> resp'.sent[1].key,
                                        value |-> EventValue(resp'.converted[1]),
                                        seq |-> LogSize(log) + 1])

FailedPersistencePublishesNothing ==
    (Served("TrackEvent") /\ resp'.persist = "error") =>
        /\ resp'.code = "Internal"
        /\ resp'.sent = << >>
        /\ log' = log
        /\ events' = events

EventMessagesHaveRows ==
    \A p \in Partitions : \A i \in DOMAIN log[p] :
        log[p][i].value.kind = "event" => log[p][i].value.event \in events

C35_NoPublishWithoutPersistence ==
    /\ [][PublishesOnlyItsInsert]_vars
    /\ [][FailedPersistencePublishesNothing]_vars
    /\ []EventMessagesHaveRows

\* One call inserted and published its event; the next one failed to persist
\* and left the log as it was.
C35_Witness ==
    /\ resp.op = "TrackEvent" /\ resp.persist = "error" /\ resp.code = "Internal"
    /\ LogSize(log) = 1 /\ Cardinality(events) = 1
    /\ EventMessagesHaveRows

(***************************************************************************)
(* C36: readiness is reached whenever the group is joined.  Once Setup has *)
(* been called, the channel main obtained from WaitReady() is eventually   *)
(* closed (unless the process has ended), also when an earlier Consume     *)
(* returned before that Setup; and Setup never closes a channel that is    *)
(* already closed.                                                         *)
(***************************************************************************)
SetupCalled == nJoined > 0

MainChannelClosed == mainReady # NULL /\ mainReady \in closedReady

SetupClosesOpenChannel == nJoined' = nJoined + 1 => ready \notin closedReady

C36_ReadinessReached ==
    /\ [](SetupCalled => <>(MainChannelClosed \/ ~Alive))
    /\ [][SetupClosesOpenChannel]_vars

\* main waits on the channel the constructor made, the first Consume has
\* failed, and Setup has closed the channel that replaced it.
C36_MainWaitsOnReplacedChannel ==
    /\ Alive /\ mainPc = "waitReady" /\ SetupCalled
    /\ nFailed = 1 /\ mainReady = 0 /\ closedReady = {1}

(***************************************************************************)
(* C37: redelivery is counted again.  The stored total_events of every key *)
(* is the number of handler invocations for the key that returned nil, and *)
(* never more than the number of deliveries of the key's messages; a       *)
(* successful invocation on a message that was delivered before (after a   *)
(* rebalance or a restart that preceded the offset commit) raises it by 1  *)
(* like any other, while the insertion of its user into a working set      *)
(* that already holds that user leaves the cardinality of the set as it    *)
(* was.                                                                    *)
(***************************************************************************)
\* The message the worker of p is handling was handed out before as well.
Redelivered(p) ==
    /\ pc[p] # "idle"
    /\ Cardinality({n \in DOMAIN delivered[p] :
                        delivered[p][n] = Current(p).seq}) > 1

TotalIsSuccessfulInvocations ==
    \A r \in summaries :
        /\ SummaryKey(r) \in DOMAIN upserts
        /\ r.total_events = SuccessfulUpserts(SummaryKey(r))
        /\ r.total_events <= Cardinality(DeliveriesOf(SummaryKey(r)))

RedeliveryAddsOne ==
    \A p \in Partitions :
        (Redelivered(p) /\ UpsertReturned(p) /\ last'.err = "nil") =>
            StoredTotal(summaries', SummaryKey(last'.summary))
                = StoredTotal(summaries, SummaryKey(last'.summary)) + 1

KnownUserKeepsCardinality ==
    \A p \in Partitions :
        (pc[p] = "insert" /\ pc'[p] = "upsert") =>
            LET data == Unmarshal(Current(p).value).data
                c == owner[p]
            IN  (/\ CacheKey(data) \in DOMAIN uniqueUsers[c]
                 /\ data.user_id \in uniqueUsers[c][CacheKey(data)]) =>
                    CountUsers(uniqueUsers'[c], CacheKey(data))
                        = CountUsers(uniqueUsers[c], CacheKey(data))

C37_RedeliveryCountedAgain ==
    /\ []TotalIsSuccessfulInvocations
    /\ [][RedeliveryAddsOne]_vars
    /\ [][KnownUserKeepsCardinality]_vars

\* One message is on the log; it was delivered twice to the same process and
\* handled successfully both times: total_events 2, one user in the set.
C37_Witness ==
    /\ LogSize(log) = 1 /\ Quiescent
    /\ \E p \in Partitions :
          /\ Len(delivered[p]) = 2 /\ delivered[p][1] = delivered[p][2]
          /\ owner[p] # NoProc
          /\ \E r \in summaries :
                /\ r.total_events = 2
                /\ upserts[SummaryKey(r)][owner[p]] = 2
                /\ CountUsers(uniqueUsers[owner[p]], SummaryKey(r)) = 1

(***************************************************************************)
(* C38: eviction sweep, postcondition and frame.  When a CleanupOldCache   *)
(* call ends, the working set of its process holds no key dated before the *)
(* calendar date of (the time of the call - 24 h), every key dated on or   *)
(* after that date is still there with the same users, and the Summary     *)
(* Store is as the call found it.                                          *)
(***************************************************************************)
CutoffIsDayBefore(c) ==
    \E zone \in Zones :
        sweep[c].cutoff = (sweep[c].started - HoursPerDay + zone) \div HoursPerDay

NoEarlierKeyLeft(c) ==
    \A k \in DOMAIN uniqueUsers'[c] : ~(k[1] < sweep[c].cutoff)

LaterKeysUntouched(c) ==
    \A k \in DOMAIN uniqueUsers[c] :
        k[1] >= sweep[c].cutoff =>
            /\ k \in DOMAIN uniqueUsers'[c]
            /\ uniqueUsers'[c][k] = uniqueUsers[c][k]

C38_SweepPostconditionAndFrame ==
    [][ \A c \in Procs :
          /\ SweepBegan(c) => summaries' = summaries
          /\ SweepEnded(c) =>
                 /\ CutoffIsDayBefore(c)
                 /\ NoEarlierKeyLeft(c)
                 /\ LaterKeysUntouched(c)
                 /\ summaries' = summaries ]_vars

\* A sweep of the second day has ended: it evicted a key of day 0 whose row
\* is still in the Summary Store and kept a key of the cutoff day, day 1.
C38_Witness ==
    \E c \in Procs :
        /\ ~sweep[c].on
        /\ now = StartHour + HoursPerDay
        /\ \E r \in summaries : SummaryKey(r) \in evicted[c] /\ r.date = 0
        /\ \E k \in DOMAIN uniqueUsers[c] : k[1] = 1 /\ uniqueUsers[c][k] # {}
        /\ \A k \in DOMAIN uniqueUsers[c] : k[1] >= 1

(***************************************************************************)
(* C39: GetEventStats range selection.  A successful GetEventStats         *)
(* aggregates exactly the stored summaries whose (date, hour) bucket lies  *)
(* within [from, to], of the requested event type when one is given and of *)
(* every type otherwise: none whose bucket is inside [from, to] is left    *)
(* out and none whose bucket is outside [from, to] is taken in.            *)
(***************************************************************************)
\* The hour a summary row stands for, in hours since the start of day 0.
BucketHour(r) == r.date * HoursPerDay + r.hour

InHourRange(r, req) ==
    /\ req.from <= BucketHour(r)
    /\ BucketHour(r) <= req.to
    /\ (req.event_type = "" \/ r.event_type = req.event_type)

Fetched == {qresp.fetched[i] : i \in DOMAIN qresp.fetched}

NeverOmitted ==
    \A r \in summaries : InHourRange(r, qresp.req) => ScanSummary(r) \in Fetched

NeverIncludedOutside ==
    \A s \in Fetched :
        \E r \in summaries : ScanSummary(r) = s /\ InHourRange(r, qresp.req)

C39_RangeSelection == StatsOK => (NeverOmitted /\ NeverIncludedOutside)

(***************************************************************************)
(* C40: GetUserActivity.  A successful GetUserActivity(user_id, from, to,  *)
(* limit) returns only events of that user created within [from, to],     *)
(* newest first, at most limit of them (100 when limit <= 0), none of them *)
(* older than an event of the range it leaves out; total_events is the     *)
(* number of events returned, so it never exceeds the limit even when more *)
(* events of the user lie in the range.                                    *)
(***************************************************************************)
ActivityOK == qresp.op = "GetUserActivity" /\ qresp.code = "OK"

\* The stored events the request ranges over.
ActivityOf(req) ==
    { e \in events : /\ UuidString(e.user_id) = req.user_id
                     /\ req.from <= e.created_at
                     /\ e.created_at <= req.to }

LimitInForce(req) == IF req.limit <= 0 THEN ActivityDefaultLimit ELSE req.limit

ReturnedEvents == {qresp.events[i] : i \in DOMAIN qresp.events}

OnlyTheUsersEventsInRange ==
    /\ \A x \in ReturnedEvents : \E e \in ActivityOf(qresp.req) : UserEvent(e) = x
    /\ Cardinality(ReturnedEvents) = Len(qresp.events)

NewestFirst ==
    /\ \A i \in DOMAIN qresp.events, j \in DOMAIN qresp.events :
           i < j => qresp.events[i].timestamp.t >= qresp.events[j].timestamp.t
    /\ \A e \in ActivityOf(qresp.req) :
           UserEvent(e) \notin ReturnedEvents =>
               \A x \in ReturnedEvents : x.timestamp.t >= e.created_at

UpToTheLimit ==
    /\ Len(qresp.events) <= LimitInForce(qresp.req)
    /\ Len(qresp.events) < LimitInForce(qresp.req) =>
           Len(qresp.events) = Cardinality(ActivityOf(qresp.req))

TotalIsReturnedCount ==
    /\ qresp.total_events = Len(qresp.events)
    /\ qresp.total_events <= LimitInForce(qresp.req)

C40_UserActivity ==
    ActivityOK =>
        /\ OnlyTheUsersEventsInRange
        /\ NewestFirst
        /\ UpToTheLimit
        /\ TotalIsReturnedCount

\* Three events of u1 lie in the range and another user's event as well; the
\* request has limit 2 and gets the two newest, total_events = 2.
C40_Witness ==
    /\ ActivityOK /\ qresp.req.limit = 2
    /\ Cardinality(ActivityOf(qresp.req)) = 3
    /\ Len(qresp.events) = 2 /\ qresp.total_events = 2
    /\ qresp.events[1].timestamp.t > qresp.events[2].timestamp.t

\* A request without a limit is answered with every event of the range.
C40_WitnessDefaultLimit ==
    /\ ActivityOK /\ qresp.req.limit <= 0
    /\ Len(qresp.events) = 2 /\ qresp.total_events = 2
    /\ \E e \in events : UuidString(e.user_id) # qresp.req.user_id

====
